---------------------------- MODULE Spec2Model ----------------------------
(***************************************************************************)
(* Business-Scraper-Electron: the main process (src/electron/main.js), the *)
(* preload bridge and the renderer (src/renderer/app.js) as one state      *)
(* machine.                                                                *)
(*                                                                         *)
(* Text is a sequence of tokens.  A token is one character, or one literal *)
(* the code searches for as a whole (a marker, a status word).             *)
(***************************************************************************)
EXTENDS Integers, Sequences, FiniteSets, TLC

Null == "null"

(***************************************************************************)
(* JavaScript string primitives on token sequences                         *)
(***************************************************************************)
WS == {" ", "\n"}

Min(a, b) == IF a < b THEN a ELSE b
Max(a, b) == IF a > b THEN a ELSE b

Range(s) == {s[i] : i \in 1..Len(s)}

\* String.prototype.indexOf: 0-based index of the first occurrence, else -1
IndexOf(text, tok) ==
    IF \E i \in 1..Len(text) : text[i] = tok
    THEN (CHOOSE i \in 1..Len(text) :
              text[i] = tok /\ \A j \in 1..(i - 1) : text[j] # tok) - 1
    ELSE -1

\* String.prototype.substring(a, b): clamps to [0, length], swaps when a > b
Substring(text, a, b) ==
    LET ca == Max(0, Min(a, Len(text)))
        cb == Max(0, Min(b, Len(text)))
        lo == Min(ca, cb)
        hi == Max(ca, cb)
    IN  SubSeq(text, lo + 1, hi)

RECURSIVE TrimLeft(_)
TrimLeft(text) ==
    IF text # <<>> /\ Head(text) \in WS THEN TrimLeft(Tail(text)) ELSE text

RECURSIVE TrimRight(_)
TrimRight(text) ==
    IF text # <<>> /\ text[Len(text)] \in WS
    THEN TrimRight(SubSeq(text, 1, Len(text) - 1))
    ELSE text

\* String.prototype.trim
Trim(text) == TrimRight(TrimLeft(text))

\* String.prototype.split('\n'): n separators give n + 1 pieces
RECURSIVE SplitOn(_, _, _)
SplitOn(text, sep, cur) ==
    IF text = <<>> THEN <<cur>>
    ELSE IF Head(text) = sep
         THEN <<cur>> \o SplitOn(Tail(text), sep, <<>>)
         ELSE SplitOn(Tail(text), sep, Append(cur, Head(text)))

SplitLines(text) == SplitOn(text, "\n", <<>>)

NonBlank(line) == Trim(line) # <<>>

RECURSIVE MapSeq(_, _)
MapSeq(Op(_), s) ==
    IF s = <<>> THEN <<>> ELSE <<Op(Head(s))>> \o MapSeq(Op, Tail(s))

RECURSIVE Flatten(_)
Flatten(ss) == IF ss = <<>> THEN <<>> ELSE Head(ss) \o Flatten(Tail(ss))

(***************************************************************************)
(* CSV: parseCSVLine, header normalisation, extractCSVData                 *)
(***************************************************************************)
StartMarker == "--- CSV_DATA_START ---"
EndMarker == "--- CSV_DATA_END ---"
\* startMarker.length, counted in tokens (the marker is one token)
StartMarkerLength == 1

\* main.js parseCSVLine: one pass, a quote toggles inQuotes, a comma outside
\* quotes ends the field, every field is trimmed
RECURSIVE ParseCSVScan(_, _, _, _)
ParseCSVScan(line, result, current, inQuotes) ==
    IF line = <<>> THEN Append(result, Trim(current))
    ELSE LET char == Head(line) IN
         IF char = "\""
         THEN ParseCSVScan(Tail(line), result, current, ~inQuotes)
         ELSE IF char = "," /\ ~inQuotes
              THEN ParseCSVScan(Tail(line), Append(result, Trim(current)), <<>>, inQuotes)
              ELSE ParseCSVScan(Tail(line), result, Append(current, char), inQuotes)

\* a variant that splits at every comma, after dropping the quotes
parseCSVLineEveryComma(line) ==
    MapSeq(Trim, SplitOn(SelectSeq(line, LAMBDA c : c # "\""), ",", <<>>))

parseCSVLine(line) == ParseCSVScan(line, <<>>, <<>>, FALSE)

\* toLowerCase on the tokens of the alphabet
Lower(c) ==
    CASE c = "N" -> "n"
      [] c = "P" -> "p"
      [] c = "Name" -> "name"
      [] c = "Address" -> "address"
      [] c = "Phone" -> "phone"
      [] c = "Number" -> "number"
      [] c = "Email" -> "email"
      [] c = "Website" -> "website"
      [] c = "Rating" -> "rating"
      [] c = "Total" -> "total"
      [] c = "Ratings" -> "ratings"
      [] c = "Additional" -> "additional"
      [] c = "Numbers" -> "numbers"
      [] c = "Emails" -> "emails"
      [] c = "Social" -> "social"
      [] c = "Media" -> "media"
      [] c = "Links" -> "links"
      [] c = "Reviews" -> "reviews"
      [] c = StartMarker -> "--- csv_data_start ---"
      [] c = EndMarker -> "--- csv_data_end ---"
      [] OTHER -> c

KeyChars ==
    {"n", "p", "a", "b", "x", "1", "2", "_", "name", "address", "phone", "number",
     "email", "website", "rating", "total", "ratings", "additional", "numbers",
     "emails", "social", "media", "links", "reviews", "_csv_data_start_",
     "_csv_data_end_"}

\* .replace(/\s+/g, '_'): every whitespace run becomes one underscore
RECURSIVE CollapseWS(_, _)
CollapseWS(text, inRun) ==
    IF text = <<>> THEN <<>>
    ELSE IF Head(text) \in WS
         THEN (IF inRun THEN <<>> ELSE <<"_">>) \o CollapseWS(Tail(text), TRUE)
         ELSE <<Head(text)>> \o CollapseWS(Tail(text), FALSE)

IsKeyChar(c) == c \in KeyChars

\* header.toLowerCase().replace(/\s+/g, '_').replace(/[^a-z0-9_]/g, '')
\* the two replaces on one token: a token of [a-z0-9_] stays, a lowered
\* marker keeps its letters and gets an underscore for each of its two
\* blanks, any other token goes
StripToken(c) ==
    CASE IsKeyChar(c) -> <<c>>
      [] c = "--- csv_data_start ---" -> <<"_csv_data_start_">>
      [] c = "--- csv_data_end ---" -> <<"_csv_data_end_">>
      [] OTHER -> <<>>

\* a variant whose second replace has no g flag: it deletes the first
\* character outside [a-z0-9_] only
PropNameStripOnce(header) ==
    LET text == CollapseWS(MapSeq(Lower, header), FALSE)
        bad == {i \in 1..Len(text) : ~IsKeyChar(text[i])}
    IN  IF bad = {} THEN text
        ELSE LET i == CHOOSE k \in bad : \A m \in bad : k <= m
             IN  SubSeq(text, 1, i - 1) \o SubSeq(text, i + 1, Len(text))

PropName(header) ==
    Flatten(MapSeq(StripToken, CollapseWS(MapSeq(Lower, header), FALSE)))

\* values[index] || '' followed by trim()
ValueAt(values, index) ==
    IF index <= Len(values) THEN Trim(values[index]) ELSE <<>>

\* headers.forEach((header, index) => row[propName] = ...): a later column
\* with the same property name overwrites an earlier one
RowOf(headers, values) ==
    LET names == {PropName(headers[i]) : i \in 1..Len(headers)}
        last(n) == CHOOSE i \in 1..Len(headers) :
                       /\ PropName(headers[i]) = n
                       /\ \A j \in (i + 1)..Len(headers) : PropName(headers[j]) # n
    IN  [n \in names |-> ValueAt(values, last(n))]

\* the row loop shared by extractCSVData and read-csv-file; values.length > 0
\* always holds, parseCSVLine returns at least one field
RECURSIVE RowsOf(_, _)
RowsOf(headers, lines) ==
    IF lines = <<>> THEN <<>>
    ELSE LET values == parseCSVLine(Head(lines)) IN
         (IF Len(values) > 0 THEN <<RowOf(headers, values)>> ELSE <<>>)
             \o RowsOf(headers, Tail(lines))

\* the value of csvData: null, or an array of rows
NullTable == [null |-> TRUE, rows |-> <<>>]
Table(rows) == [null |-> FALSE, rows |-> rows]

\* a variant that parses the whole text and never looks for the markers
ExtractIgnoringMarkers(stdout) ==
    LET lines == SelectSeq(SplitLines(Trim(stdout)), NonBlank)
    IN  IF Len(lines) < 2 THEN NullTable
        ELSE Table(RowsOf(MapSeq(Trim, parseCSVLine(lines[1])),
                          SubSeq(lines, 2, Len(lines))))

\* main.js extractCSVData (601-654)
extractCSVData(stdout) ==
    LET startIndex == IndexOf(stdout, StartMarker)
        endIndex == IndexOf(stdout, EndMarker)
    IN  IF startIndex = -1 \/ endIndex = -1 THEN NullTable
        ELSE LET csvContent ==
                     Trim(Substring(stdout, startIndex + StartMarkerLength, endIndex))
                 lines == SelectSeq(SplitLines(csvContent), NonBlank)
             IN  IF csvContent = <<>> THEN NullTable
                 ELSE IF Len(lines) < 2 THEN NullTable
                 ELSE Table(RowsOf(MapSeq(Trim, parseCSVLine(lines[1])),
                                   SubSeq(lines, 2, Len(lines))))

\* a variant that accepts a file with a header and no data row
ReadCsvFileHeaderOnly(fs, path) ==
    LET failure(error) == [success |-> FALSE, error |-> error, data |-> <<>>]
    IN  IF path \notin DOMAIN fs \/ ~fs[path].exists
        THEN failure(<<"File not found">>)
        ELSE IF ~fs[path].readable THEN failure(<<"EACCES">>)
        ELSE LET lines == SelectSeq(SplitLines(fs[path].text), NonBlank)
             IN  IF Len(lines) < 1
                 THEN failure(<<"Invalid CSV file - no data rows found">>)
                 ELSE [success |-> TRUE, error |-> <<>>,
                       data |-> RowsOf(MapSeq(Trim, parseCSVLine(lines[1])),
                                       SubSeq(lines, 2, Len(lines)))]

\* main.js read-csv-file (525-580): the object it returns; a file that
\* cannot be read makes readFileSync throw into the catch
ReadCsvFile(fs, path) ==
    LET failure(error) == [success |-> FALSE, error |-> error, data |-> <<>>]
    IN  IF path \notin DOMAIN fs \/ ~fs[path].exists
        THEN failure(<<"File not found">>)
        ELSE IF ~fs[path].readable THEN failure(<<"EACCES">>)
        ELSE LET lines == SelectSeq(SplitLines(fs[path].text), NonBlank)
             IN  IF Len(lines) < 2
                 THEN failure(<<"Invalid CSV file - no data rows found">>)
                 ELSE [success |-> TRUE, error |-> <<>>,
                       data |-> RowsOf(MapSeq(Trim, parseCSVLine(lines[1])),
                                       SubSeq(lines, 2, Len(lines)))]

(***************************************************************************)
(* State                                                                   *)
(***************************************************************************)
VARIABLES
    \* the installation the application runs in
    isDev,          \* process.argv.includes('--dev')
    win32,          \* process.platform === 'win32'
    exeExists,      \* the business_scraper executable is on disk
    templateExists, \* config.template.ini is on disk
    outFiles,       \* per output path: the result file, NoFile or File(text)
    perm,           \* per directory: "rw", "filero" (the directory passes the
                    \* write probe, writing config.ini fails) or "ro"
    files,          \* per location: its config.ini, NoFile or File(text)
    \* electron-store
    storePath,      \* store 'configPath': a location or Null
    storeConfig,    \* store 'config': NoConfig or Config(apiKey)
    \* the last configuration operation of the main process and what it tried
    lastOp

envVars == <<isDev, win32, exeExists, templateExists, perm, outFiles>>
cfgVars == <<files, storePath, storeConfig, lastOp>>

UserData == "userData"
Documents == "documents"
AppDir == "app"
Resources == "resources"
\* the directories that can hold a config.ini
Locs == {UserData, Documents, AppDir, Resources}

NoFile == [exists |-> FALSE, text |-> <<>>, readable |-> FALSE]
File(text) == [exists |-> TRUE, text |-> text, readable |-> TRUE]
\* a config.ini that fs.readFileSync and fs.copyFileSync throw on
Unreadable == [exists |-> TRUE, text |-> <<>>, readable |-> FALSE]

\* a config object: {} or {apiKey: text}
NoConfig == [hasKey |-> FALSE, apiKey |-> <<>>]
Config(apiKey) == [hasKey |-> TRUE, apiKey |-> apiKey]

KeyEntry == "google_maps_api_key="
Placeholder == "YOUR_API_KEY_HERE"

\* save-config: the text written for an API key (main.js 223-226)
ConfigContent(apiKey) ==
    <<"# Business Scraper Configuration", "\n", "[API]", "\n", KeyEntry>>
        \o apiKey \o <<"\n">>

\* config.template.ini, shipped with the placeholder key
TemplateContent == ConfigContent(<<Placeholder>>)

\* configContent.match(/google_maps_api_key=(.+)/): the capture is the text
\* after the first entry that is followed by at least one character, up to
\* the end of its line
\* a variant that stops at the first blank as well
RECURSIVE UpToNewlineOrBlank(_)
UpToNewlineOrBlank(text) ==
    IF text = <<>> \/ Head(text) \in WS THEN <<>>
    ELSE <<Head(text)>> \o UpToNewlineOrBlank(Tail(text))

RECURSIVE UpToNewline(_)
UpToNewline(text) ==
    IF text = <<>> \/ Head(text) = "\n" THEN <<>>
    ELSE <<Head(text)>> \o UpToNewline(Tail(text))

NoMatch == [matched |-> FALSE, capture |-> <<>>]

RECURSIVE ApiKeyMatch(_)
ApiKeyMatch(content) ==
    IF content = <<>> THEN NoMatch
    ELSE IF Head(content) = KeyEntry /\ UpToNewline(Tail(content)) # <<>>
         THEN [matched |-> TRUE, capture |-> UpToNewline(Tail(content))]
         ELSE ApiKeyMatch(Tail(content))

\* fs.existsSync of the config.ini at a location
Exists(fs, loc) == fs[loc].exists

\* ensureDirectoryWritable: mkdir -p and the .write-test probe; TRUE when it
\* returns, FALSE when it throws
ensureDirectoryWritable(dir) == perm[dir] # "ro"

\* safeWriteFile / fs.writeFileSync / fs.copyFileSync of config.ini into a
\* directory: TRUE when it returns, FALSE when it throws
safeWriteFile(dir) == perm[dir] = "rw"

(***************************************************************************)
(* main.js initializeConfig (91-168)                                       *)
(***************************************************************************)
\* primaryConfigPath (107-122)
PrimaryConfigPath ==
    IF ensureDirectoryWritable(UserData) THEN UserData ELSE Documents

\* appConfigPath (125-138)
InitAppConfigPath(fs, stored) ==
    IF isDev THEN AppDir
    ELSE IF Exists(fs, Resources) THEN Resources
    ELSE IF stored # Null /\ Exists(fs, stored) THEN stored
    ELSE PrimaryConfigPath

\* the whole function: the new [files, storePath]
InitializeConfig(fs, stored) ==
    LET primary == PrimaryConfigPath
        appPath == InitAppConfigPath(fs, stored)
        configExists == \/ (stored # Null /\ Exists(fs, stored))
                        \/ Exists(fs, primary)
                        \/ Exists(fs, appPath)
        create == ~configExists /\ templateExists
        \* safeWriteFile throws: the outer catch ends the function
        threw == create /\ ~safeWriteFile(primary)
        fs1 == IF create /\ ~threw
               THEN [fs EXCEPT ![primary] = File(TemplateContent)] ELSE fs
        stored1 == IF create /\ ~threw THEN primary ELSE stored
        \* 157-164 reads the storedConfigPath read at the top of the function
        sourceConfig == IF stored # Null THEN stored ELSE primary
        copy == /\ ~threw
                /\ isDev
                /\ ~Exists(fs1, appPath)
                /\ Exists(fs1, sourceConfig)
                /\ fs1[sourceConfig].readable   \* else copyFileSync throws (165)
                /\ safeWriteFile(AppDir)
        fs2 == IF copy THEN [fs1 EXCEPT ![appPath] = fs1[sourceConfig]] ELSE fs1
    IN  [files |-> fs2, storePath |-> stored1]

(***************************************************************************)
(* main.js save-config (221-285)                                           *)
(***************************************************************************)
\* one candidate: the probe and the write (237-238, 251-252)
CandidateSaved(dir) == ensureDirectoryWritable(dir) /\ safeWriteFile(dir)

\* a variant that never sets actualConfigPath to the fallback
AlwaysUserConfigPath == UserData

\* actualConfigPath (233, 254)
ActualConfigPath == IF CandidateSaved(UserData) THEN UserData ELSE Documents

\* the candidates the handler tried, in order
SaveAttempts ==
    IF CandidateSaved(UserData) THEN <<UserData>> ELSE <<UserData, Documents>>

\* configSaved, or the throw of 257
ConfigSaved == CandidateSaved(UserData) \/ CandidateSaved(Documents)

\* a variant that remembers the path without testing configSaved
SaveStorePathUnchecked(stored) ==
    IF CandidateSaved(UserData) THEN UserData ELSE Documents

\* 261-265: what is remembered
SaveStorePath(stored) == IF ConfigSaved THEN ActualConfigPath ELSE stored
SaveStoreConfig(cfg, config) == IF ConfigSaved THEN config ELSE cfg

\* the files after the handler: the candidate written, and in development
\* mode the copy in the application directory (268-275)
SaveFiles(fs, config) ==
    LET content == File(ConfigContent(config.apiKey))
        fs1 == IF ConfigSaved THEN [fs EXCEPT ![ActualConfigPath] = content] ELSE fs
    IN  IF ConfigSaved /\ isDev /\ safeWriteFile(AppDir)
        THEN [fs1 EXCEPT ![AppDir] = content]
        ELSE fs1

\* the handler's return value (277, 280-283)
SaveReply == [success |-> ConfigSaved]

(***************************************************************************)
(* main.js load-config (287-338)                                           *)
(***************************************************************************)
\* a variant that tries the userData file before the remembered one
ConfigPathsToTryUserDataFirst(stored) ==
    (IF stored # UserData THEN <<UserData>> ELSE <<>>)
        \o (IF stored # Null THEN <<stored>> ELSE <<>>)

\* configPathsToTry (296-306)
ConfigPathsToTry(stored) ==
    (IF stored # Null THEN <<stored>> ELSE <<>>)
        \o (IF stored # UserData THEN <<UserData>> ELSE <<>>)

\* a variant of the loop that stops at the first file that exists
LoadedIndexFirstExisting(fs, paths) ==
    LET there(i) == Exists(fs, paths[i])
        hit(i) == /\ there(i)
                  /\ fs[paths[i]].readable
                  /\ ApiKeyMatch(fs[paths[i]].text).matched
    IN  IF \E i \in 1..Len(paths) : there(i)
        THEN LET f == CHOOSE i \in 1..Len(paths) :
                          there(i) /\ \A j \in 1..(i - 1) : ~there(j)
             IN  IF hit(f) THEN f ELSE 0
        ELSE 0

\* the loop 310-331: the first path whose file exists and yields a key, in
\* 1..Len(paths), or 0
LoadedIndex(fs, paths) ==
    LET hit(i) == /\ Exists(fs, paths[i])
                  /\ fs[paths[i]].readable      \* else readFileSync throws (327)
                  /\ ApiKeyMatch(fs[paths[i]].text).matched
    IN  IF \E i \in 1..Len(paths) : hit(i)
        THEN CHOOSE i \in 1..Len(paths) : hit(i) /\ \A j \in 1..(i - 1) : ~hit(j)
        ELSE 0

\* the files the loop read, in order
LoadReads(fs, stored) ==
    LET paths == ConfigPathsToTry(stored)
        n == LoadedIndex(fs, paths)
        upto == IF n = 0 THEN Len(paths) ELSE n
        read(p) == Exists(fs, p)
    IN  SelectSeq(SubSeq(paths, 1, upto), read)

\* store 'configPath' after the handler (321-324)
LoadStorePath(fs, stored) ==
    LET paths == ConfigPathsToTry(stored)
        n == LoadedIndex(fs, paths)
    IN  IF n # 0 /\ paths[n] # stored THEN paths[n] ELSE stored

\* a variant in which a key in the store wins over the key in the file
LoadedConfigStoreFirst(fs, stored, cfg) ==
    LET paths == ConfigPathsToTry(stored)
        n == LoadedIndex(fs, paths)
    IN  IF cfg.hasKey \/ n = 0 THEN cfg
        ELSE Config(Trim(ApiKeyMatch(fs[paths[n]].text).capture))

\* the returned config: the stored object with the file's key laid over it
LoadedConfig(fs, stored, cfg) ==
    LET paths == ConfigPathsToTry(stored)
        n == LoadedIndex(fs, paths)
    IN  IF n # 0 THEN Config(Trim(ApiKeyMatch(fs[paths[n]].text).capture))
        ELSE cfg

LoadReply(fs, stored, cfg) ==
    [success |-> TRUE, config |-> LoadedConfig(fs, stored, cfg)]

(***************************************************************************)
(* app.js updateStatus (303-408): the classifier.  Its state is the stage  *)
(* and the progress counter; st is [stage, current, total].                *)
(***************************************************************************)
\* String.prototype.includes for a literal given as a token sequence
Includes(text, lit) ==
    \E i \in 0..(Len(text) - Len(lit)) : SubSeq(text, i + 1, i + Len(lit)) = lit

\* toLowerCase of the words the classifier looks for
LowerWord(c) ==
    CASE c = "Error" -> "error"
      [] c = "ERROR" -> "error"
      [] c = "Failed" -> "failed"
      [] OTHER -> Lower(c)

Digits == {"0", "1", "2", "3", "4", "5", "6", "7", "8", "9"}

DigitValue(d) == CHOOSE n \in 0..9 : ToString(n) = d

\* parseInt of a digit run
RECURSIVE ParseInt(_, _)
ParseInt(ds, acc) ==
    IF ds = <<>> THEN acc ELSE ParseInt(Tail(ds), acc * 10 + DigitValue(Head(ds)))

\* the longest digit run at the head of a text
RECURSIVE DigitRun(_)
DigitRun(text) ==
    IF text # <<>> /\ Head(text) \in Digits
    THEN <<Head(text)>> \o DigitRun(Tail(text)) ELSE <<>>

\* message.match(/<word> (\d+) businesses/): the positions where it matches
CountMatches(message, word) ==
    {i \in 1..Len(message) :
        /\ message[i] = word
        /\ i + 1 <= Len(message) /\ message[i + 1] = " "
        /\ LET run == DigitRun(SubSeq(message, i + 2, Len(message)))
               j == i + 2 + Len(run)
           IN  /\ run # <<>>
               /\ j + 1 <= Len(message)
               /\ message[j] = " "
               /\ message[j + 1] = "businesses"}

\* a variant that reads one digit
CountOfFirstDigit(message, word) ==
    LET i == CHOOSE k \in CountMatches(message, word) :
                 \A m \in CountMatches(message, word) : k <= m
    IN  DigitValue(message[i + 2])

\* the captured count of the leftmost match
CountOf(message, word) ==
    LET i == CHOOSE k \in CountMatches(message, word) :
                 \A m \in CountMatches(message, word) : k <= m
    IN  ParseInt(DigitRun(SubSeq(message, i + 2, Len(message))), 0)

Dot == "."

\* message.match(/Processing:\s*(.+?)\.{3}/): some "Processing:" is followed,
\* after optional whitespace, by at least one character other than a line
\* break and then three dots, all on one line
ProcessingMatch(message) ==
    \E i \in 1..Len(message) :
        /\ message[i] = "Processing:"
        /\ \E a \in (i + 1)..Len(message), b \in (i + 1)..Len(message) :
              /\ a <= b
              /\ \A k \in (i + 1)..(a - 1) : message[k] \in WS
              /\ \A k \in a..b : message[k] # "\n"
              /\ b + 3 <= Len(message)
              /\ \A k \in (b + 1)..(b + 3) : message[k] = Dot

\* message.match(/(?:Enhancing|Scraping)\s+["']?([^"'\.]+?)["']?\s*(?:\.\.\.|\.+|$)/)
BusinessMatch(message) ==
    LET Quote == {"\"", "'"}
        n == Len(message)
    IN  \E i \in 1..n :
           /\ message[i] \in {"Enhancing", "Scraping"}
           /\ \E w \in (i + 1)..n :            \* last token of \s+
                 /\ \A k \in (i + 1)..w : message[k] \in WS
                 /\ \E q1 \in {0, 1} :          \* the optional opening quote
                       /\ q1 = 1 => (w + 1 <= n /\ message[w + 1] \in Quote)
                       /\ \E a \in {w + q1 + 1}, b \in (w + q1 + 1)..n :
                             /\ \A k \in a..b : message[k] \notin Quote \cup {Dot}
                             /\ \E q2 \in {0, 1} :
                                   /\ q2 = 1 => (b + 1 <= n /\ message[b + 1] \in Quote)
                                   /\ \E e \in (b + q2)..n :  \* last token of \s*
                                         /\ \A k \in (b + q2 + 1)..e : message[k] \in WS
                                         /\ (e = n \/ message[e + 1] = Dot)

\* a variant that takes the text after "Processing:" as it stands
ProcessingNameRaw(message) ==
    LET n == Len(message)
        i0 == CHOOSE i \in 1..n : message[i] = "Processing:"
        ends == {b \in (i0 + 1)..n :
                    b + 3 <= n /\ \A k \in (b + 1)..(b + 3) : message[k] = Dot}
        b0 == CHOOSE b \in ends : \A c \in ends : b <= c
    IN  SubSeq(message, i0 + 1, b0)

\* processingMatch[1].trim() (359-361): the match at the leftmost
\* "Processing:", \s* taking the longest run that lets the rest match, (.+?)
\* the shortest text that three dots follow
ProcessingName(message) ==
    LET n == Len(message)
        ok(i, a, b) ==
            /\ message[i] = "Processing:"
            /\ a <= b
            /\ \A k \in (i + 1)..(a - 1) : message[k] \in WS
            /\ \A k \in a..b : message[k] # "\n"
            /\ b + 3 <= n
            /\ \A k \in (b + 1)..(b + 3) : message[k] = Dot
        at(i) == \E a \in (i + 1)..n, b \in (i + 1)..n : ok(i, a, b)
        i0 == CHOOSE i \in 1..n : at(i) /\ \A j \in 1..(i - 1) : ~at(j)
        starts == {a \in (i0 + 1)..n : \E b \in a..n : ok(i0, a, b)}
        a0 == CHOOSE a \in starts : \A c \in starts : c <= a
        ends == {b \in a0..n : ok(i0, a0, b)}
        b0 == CHOOSE b \in ends : \A c \in ends : b <= c
    IN  Trim(SubSeq(message, a0, b0))

\* businessMatch[1].trim() (367-369): the leftmost match, \s+ and the
\* opening quote greedy, the name the shortest text the rest accepts
BusinessName(message) ==
    LET Quote == {"\"", "'"}
        n == Len(message)
        ok(i, w, q1, b) ==
            /\ message[i] \in {"Enhancing", "Scraping"}
            /\ w >= i + 1
            /\ \A k \in (i + 1)..w : message[k] \in WS
            /\ q1 = 1 => (w + 1 <= n /\ message[w + 1] \in Quote)
            /\ b >= w + q1 + 1
            /\ \A k \in (w + q1 + 1)..b : message[k] \notin Quote \cup {Dot}
            /\ \E q2 \in {0, 1} :
                  /\ q2 = 1 => (b + 1 <= n /\ message[b + 1] \in Quote)
                  /\ \E e \in (b + q2)..n :
                        /\ \A k \in (b + q2 + 1)..e : message[k] \in WS
                        /\ (e = n \/ message[e + 1] = Dot)
        at(i) == \E w \in 1..n, q1 \in {0, 1}, b \in 1..n : ok(i, w, q1, b)
        i0 == CHOOSE i \in 1..n : at(i) /\ \A j \in 1..(i - 1) : ~at(j)
        ws == {w \in 1..n : \E q1 \in {0, 1}, b \in 1..n : ok(i0, w, q1, b)}
        w0 == CHOOSE w \in ws : \A c \in ws : c <= w
        qs == {q1 \in {0, 1} : \E b \in 1..n : ok(i0, w0, q1, b)}
        q0 == IF 1 \in qs THEN 1 ELSE 0
        bs == {b \in 1..n : ok(i0, w0, q0, b)}
        b0 == CHOOSE b \in bs : \A c \in bs : b <= c
    IN  Trim(SubSeq(message, w0 + q0 + 1, b0))

\* setStatusState (410-424); every status-<state> element is taken to exist
setStatusState(st, state) == [st EXCEPT !.stage = state]

\* message.includes('in'): the letters are part of several of the literals
InWords ==
    {"in", "Searching for", "businesses", "Enhancing", "Scraping", "Processing:",
     "Web scraping:", "No businesses found"}
IncludesIn(message) == \E i \in 1..Len(message) : message[i] \in InWords

\* a variant that keeps the counter
clearStatusKeepsProgress(st) == setStatusState(st, "idle")

\* clearStatus (471-474)
clearStatus(st) == [setStatusState(st, "idle") EXCEPT !.current = 0, !.total = 0]

\* what search-details shows: the text the page starts with, the text of
\* startSearch (247), of a rule of updateStatus, or the progress display
DetailKinds ==
    {"initial", "preparing", "maps", "found", "enhanced", "progress", "collecting",
     "finalizing", "raw"}

\* detailsEl.innerHTML.includes('progress-bar') (403)
HasProgressBar(details) == details \in {"enhanced", "progress"}

\* updateScrapingProgress (437-470): it writes only when total > 0
updateScrapingProgress(st) ==
    IF st.total > 0 THEN [st EXCEPT !.details = "progress"] ELSE st

\* addScrapingProgress (426-435)
addScrapingProgress(st, businessName) ==
    updateScrapingProgress([st EXCEPT !.current = @ + 1, !.label = businessName])

\* a variant that counts a line without a name whatever total is
ScrapingRuleAlwaysCounts(st, message) ==
    LET s1 == [setStatusState(st, "searching") EXCEPT !.rule = 5] IN
    IF ProcessingMatch(message)
    THEN addScrapingProgress(s1, ProcessingName(message))
    ELSE IF BusinessMatch(message)
    THEN addScrapingProgress(s1, BusinessName(message))
    ELSE updateScrapingProgress([s1 EXCEPT !.current = @ + 1])

\* rule 5 (349-384): a line about one business
ScrapingRule(st, message) ==
    LET s1 == [setStatusState(st, "searching") EXCEPT !.rule = 5] IN
    IF ProcessingMatch(message)
    THEN addScrapingProgress(s1, ProcessingName(message))
    ELSE IF BusinessMatch(message)
    THEN addScrapingProgress(s1, BusinessName(message))
    ELSE IF s1.total > 0
    THEN updateScrapingProgress([s1 EXCEPT !.current = @ + 1])
    ELSE [s1 EXCEPT !.details = "collecting"]

\* a variant that shows the line whatever the stage is
FallbackRuleAnyStage(st, message) ==
    IF ~HasProgressBar(st.details)
    THEN [st EXCEPT !.details = "raw", !.rule = 9]
    ELSE [st EXCEPT !.rule = 9]

\* rule 9 (399-407): the line becomes the text of search-details
FallbackRule(st, message) ==
    IF st.stage = "searching" /\ ~HasProgressBar(st.details)
    THEN [st EXCEPT !.details = "raw", !.rule = 9]
    ELSE [st EXCEPT !.rule = 9]

\* rules 6, 8 and 9, without the error test between them
QuietRules(st, message) ==
    IF Includes(message, <<"Results saved to:">>)
    THEN (IF st.stage = "searching"
          THEN [st EXCEPT !.details = "finalizing", !.rule = 6]
          ELSE [st EXCEPT !.rule = 6])
    ELSE IF Includes(message, <<"No businesses found">>)
    THEN [setStatusState(st, "complete") EXCEPT !.rule = 8]
    ELSE FallbackRule(st, message)

\* a variant in which the error test comes before rules 5 and 6
LaterRulesErrorFirst(st, message) ==
    LET lower == MapSeq(LowerWord, message) IN
    IF Includes(lower, <<"error">>) \/ Includes(lower, <<"failed">>)
    THEN [setStatusState(st, "error") EXCEPT !.error = message, !.rule = 7]
    ELSE IF \/ Includes(message, <<"Enhancing">>)
            \/ Includes(message, <<"Scraping">>)
            \/ Includes(message, <<"Processing:">>)
    THEN ScrapingRule(st, message)
    ELSE QuietRules(st, message)

\* the else-if chain from rule 5 on (349-407)
LaterRules(st, message) ==
    LET lower == MapSeq(LowerWord, message) IN
    IF \/ Includes(message, <<"Enhancing">>)
       \/ Includes(message, <<"Scraping">>)
       \/ Includes(message, <<"Processing:">>)
    THEN ScrapingRule(st, message)
    ELSE IF Includes(message, <<"Results saved to:">>)
    THEN (IF st.stage = "searching"
          THEN [st EXCEPT !.details = "finalizing", !.rule = 6]
          ELSE [st EXCEPT !.rule = 6])
    ELSE IF Includes(lower, <<"error">>) \/ Includes(lower, <<"failed">>)
    THEN [setStatusState(st, "error") EXCEPT !.error = message, !.rule = 7]
    ELSE IF Includes(message, <<"No businesses found">>)
    THEN [setStatusState(st, "complete") EXCEPT !.rule = 8]
    ELSE FallbackRule(st, message)

\* the nine rules, first match wins; rule is the branch that ran, label the
\* business name it passed to addScrapingProgress, error the text it put
\* into error-details
updateStatus(st0, message) ==
    LET st == [st0 EXCEPT !.label = <<>>, !.error = <<>>] IN
    IF Includes(message, <<"Searching for">>) /\ IncludesIn(message)
    THEN [setStatusState(st, "searching") EXCEPT !.details = "maps", !.rule = 1]
    ELSE IF Includes(message, <<"Max results:">>) \/ Includes(message, <<"Web scraping:">>)
    THEN [st EXCEPT !.rule = 2]
    ELSE IF Includes(message, <<"Found">>) /\ Includes(message, <<"businesses">>)
    THEN IF CountMatches(message, "Found") # {}
         THEN [setStatusState(st, "searching") EXCEPT
                   !.total = CountOf(message, "Found"), !.current = 0,
                   !.details = "found", !.rule = 3]
         ELSE [st EXCEPT !.rule = 3]
    ELSE IF /\ Includes(message, <<"Enhanced">>)
            /\ Includes(message, <<"businesses", " ", "with website data">>)
    THEN IF CountMatches(message, "Enhanced") # {}
         THEN [setStatusState(st, "searching") EXCEPT !.details = "enhanced", !.rule = 4]
         ELSE [st EXCEPT !.rule = 4]
    ELSE LaterRules(st, message)

\* validateApiKey (87-117): the key in the api-key field is usable
IsValidApiKey(field) == Trim(field) # <<>> /\ Trim(field) # <<Placeholder>>

\* validateApiKey: the stage it leaves
ValidateStage(field, stage) ==
    IF ~IsValidApiKey(field) THEN "api-key-error"
    ELSE IF stage = "api-key-error" THEN "idle" ELSE stage

\* validateApiKey: searchBtn.disabled
ValidateDisabled(field) == ~IsValidApiKey(field)

(***************************************************************************)
(* The search run: main process, worker process, IPC, renderer             *)
(***************************************************************************)
VARIABLES
    \* main process
    procs,          \* per invocation slot: the worker and the closure state of
                    \* one search-businesses call
    requests,       \* ipcRenderer.invoke calls on their way to the main process
    channel,        \* replies and webContents.send messages on their way to
                    \* the renderer, in order
    \* renderer (app.js BusinessScraperApp)
    isSearching,
    currentStage,
    scrapingProgress,
    searchDetails,      \* what the search-details element shows
    searchBtnDisabled,  \* search-btn.disabled
    apiKeyField,        \* the value of the api-key field
    lastOutputFile,
    resetTimers,        \* pending setTimeout callbacks of handleConfigSave
    \* what the renderer saw of the current run
    statusLog,      \* the updateStatus calls since the run started
    result,         \* the outcome startSearch received, NoOutcome before
    submitRejected, \* handleSearch returned at its isSearching test in this run
    sinceSave,      \* while a timer of handleConfigSave is pending: whether a
                    \* search has started, and one has ended in success, since
                    \* it was set
    lastSearchResults,  \* the businesses in the results table
    loops,          \* the parseAndDisplayResults calls inside their retry loop
    lastLoop        \* how the retry loop that ended last went

mainVars == <<procs, requests, channel>>
rendererVars == <<isSearching, currentStage, scrapingProgress, searchDetails,
                  searchBtnDisabled,
                  apiKeyField, lastOutputFile, resetTimers, statusLog, result,
                  submitRejected, sinceSave, lastSearchResults, loops, lastLoop>>
\* the results table and the retry loops
tableVars == <<lastSearchResults, loops, lastLoop>>
vars == <<envVars, cfgVars, mainVars, rendererVars>>

\* bounds of the model
MaxProcs == 2
MaxChunks == 2
MaxErrChunks == 1
MaxRequests == 2
MaxTimers == 1

Procs == 1..MaxProcs

\* what the worker can write to stdout in one 'data' event
LineFound == <<"Found", " ", "2", " ", "businesses", Dot, "\n">>
TwoLines == LineFound \o <<"Processing:", " ", "a", Dot, Dot, Dot, "\n">>
PartialLine == <<"Processing:", " ", "b">>
CsvBlock == <<StartMarker, "\n", "N", ",", "P", "\n", "a", ",", "1", "\n",
              EndMarker, "\n">>
StdoutChunks == {LineFound, TwoLines, PartialLine, CsvBlock}
\* chunks that put the markers in every order
EndOnly == <<EndMarker, "\n">>
StartOnly == <<StartMarker, "\n", "N", ",", "P", "\n", "a", ",", "1", "\n">>
MarkerChunks == {LineFound, EndOnly, StartOnly, CsvBlock}
\* the worker's CSV: the ten columns of its header and two businesses
FullHeader ==
    <<"Name", ",", "Address", ",", "Phone", " ", "Number", ",", "Email", ",",
      "Website", ",", "Rating", ",", "Total", " ", "Ratings", ",",
      "Additional", " ", "Numbers", ",", "Additional", " ", "Emails", ",",
      "Social", " ", "Media", " ", "Links", "\n">>
RowA == <<"a", ",", "x", ",", "1", ",", "a", ",", "x", ",", "2", ",", "1", ",",
          "2", ",", "b", ",", "x", "\n">>
RowB == <<"b", ",", ",", "2", ",", ",", ",", ",", ",", ",", "\n">>
FullCsv == FullHeader \o RowA \o RowB
FullBlock == <<StartMarker, "\n">> \o FullCsv \o <<EndMarker, "\n">>
\* what the result file can hold: the header, or all of it
CsvTexts == {FullHeader, FullCsv}
\* CSV texts for the parser: nothing, blank lines, a header alone, a header
\* and blank lines, one data row
EmptyText == <<>>
BlankText == <<" ", "\n", "\n">>
HeaderOnly == <<"Name", ",", "Phone", "\n">>
HeaderAndBlanks == <<"Name", ",", "Phone", "\n", " ", "\n", "\n">>
OneRow == <<"Name", ",", "Phone", "\n", "a", ",", "1", "\n">>
\* both a Phone Number and a Phone column, the first one empty in the first row
AliasCsv ==
    <<"Name", ",", "Phone", " ", "Number", ",", "Phone", ",", "Reviews", "\n",
      "a", ",", ",", "2", ",", "1", "\n",
      "b", ",", "1", ",", "2", ",", "\n">>
\* header cells with capitals, a whitespace run, characters outside
\* [a-z0-9_], and one that is a normalized key already
OddHeaderCsv ==
    <<"Phone", " ", " ", "Number", ",", "#", "N", "-", "a", Dot, ",",
      "total", "_", "ratings", "\n", "1", ",", "a", ",", "2", "\n">>
ParseTexts ==
    {EmptyText, BlankText, HeaderOnly, HeaderAndBlanks, OneRow, AliasCsv, OddHeaderCsv}
\* a text between the markers on stdout
Block(text) == <<StartMarker, "\n">> \o text \o <<EndMarker, "\n">>
ParseBlocks == {Block(text) : text \in ParseTexts}
\* the worker's side of the embedded block, as the specification describes
\* it: a header of normalized keys, one line per record, a field in quotes
\* when it contains the separator
FieldOrder ==
    <<"name", "address", "phone", "email", "website", "rating", "reviews",
      "additional_numbers", "additional_emails", "social_media_links">>
WriteHeader ==
    <<"name", ",", "address", ",", "phone", "_", "number", ",", "email", ",",
      "website", ",", "rating", ",", "total", "_", "ratings", ",",
      "additional", "_", "numbers", ",", "additional", "_", "emails", ",",
      "social", "_", "media", "_", "links", "\n">>
WriteField(value) ==
    IF "," \in Range(value) THEN <<"\"">> \o value \o <<"\"">> ELSE value
RECURSIVE WriteFields(_, _)
WriteFields(record, fields) ==
    IF fields = <<>> THEN <<"\n">>
    ELSE WriteField(record[Head(fields)])
             \o (IF Len(fields) > 1 THEN <<",">> ELSE <<>>)
             \o WriteFields(record, Tail(fields))
WriteLine(record) == WriteFields(record, FieldOrder)
WriteBlock(records) ==
    <<StartMarker, "\n">> \o WriteHeader \o Flatten(MapSeq(WriteLine, records))
        \o <<EndMarker, "\n">>
\* records over an alphabet with the separator, the quote and the blank
Business(name, address) ==
    [name |-> name, address |-> address, phone |-> <<"1">>, email |-> <<>>,
     website |-> <<>>, rating |-> <<"2">>, reviews |-> <<"1">>,
     additional_numbers |-> <<"2">>, additional_emails |-> <<>>,
     social_media_links |-> <<"x">>]
FieldTexts ==
    {<<"a">>, <<"a", ",", "b">>, <<"a", " ", "b">>, <<"a", "\"", "b">>, <<" ", "a">>}
RecordSets ==
    {<<Business(name, address)>> :
         name \in FieldTexts, address \in {<<"x">>, <<"a", ",", "b">>}}
      \cup {<<Business(<<"a">>, <<"x">>), Business(<<"b">>, <<"a", ",", "b">>)>>}
\* lines for the classifier
Found42 == <<"Found", " ", "4", "2", " ", "businesses", Dot, "\n">>
ProcessingJoe == <<"Processing:", " ", "Joe's", " ", "Pizza", Dot, Dot, Dot, "\n">>
ScrapingError == <<"Error", ":", " ", "Scraping", " ", "x", " ", "failed", "\n">>
PlainError == <<"ERROR", " ", "boom", "\n">>
ClassifierChunks == {Found42, ProcessingJoe, ScrapingError, PlainError}
\* lines that match more than one rule, a line about a business without a
\* name, and lines for the quiet rules
MapsFound == <<"Searching for", " ", "x", " ", "Found", " ", "3", " ", "businesses", "\n">>
EchoError == <<"Max results:", " ", "1", " ", "error", "\n">>
FoundFailed == <<"Found", " ", "2", " ", "businesses", " ", "failed", "\n">>
EnhancedScraping ==
    <<"Enhanced", " ", "2", " ", "businesses", " ", "with website data", " ",
      "Scraping", "\n">>
SavedError == <<"Results saved to:", " ", "error", Dot, "csv", "\n">>
ErrorNone == <<"Error", ":", " ", "No businesses found", "\n">>
NoneFound == <<"No businesses found", "\n">>
Hello == <<"hello", "\n">>
Nameless == <<"Processing:", " ", "b", "\n">>
EchoLine == <<"Web scraping:", " ", "x", "\n">>
SavedLine == <<"Results saved to:", " ", "x", "\n">>
BareScraping == <<"now", " ", "Scraping", "\n">>
RuleChunks ==
    {MapsFound, EchoError, FoundFailed, EnhancedScraping, ScrapingError, SavedError,
     ErrorNone, NoneFound, Hello, Nameless, BareScraping, EchoLine, SavedLine,
     Found42, ProcessingJoe}
StderrChunks == {<<"boom", "\n">>}
\* exit codes of a worker that ran
ExitCodes == {0, 1}
\* the code 'close' reports after a failed spawn (a negative errno)
SpawnFailCode == -2

\* the api-key values a user types
UserKey == <<"k">>
FieldValues == {<<>>, UserKey}

\* the search form as submitted
Form(keyword, dir, format, scraping) ==
    [keyword |-> keyword, location |-> <<"x">>, maxResults |-> 2,
     outputFormat |-> format, outputDirectory |-> dir,
     enableWebScraping |-> scraping]
ValidForm == Form(<<"p">>, <<"out">>, "csv", TRUE)
BlankKeywordForm == Form(<<" ">>, <<"out">>, "csv", TRUE)
Forms == {ValidForm, BlankKeywordForm}

(***************************************************************************)
(* main.js search-businesses (341-505)                                     *)
(***************************************************************************)
NoOutcome ==
    [fields |-> {}, success |-> FALSE, error |-> <<>>, output |-> <<>>,
     outputFile |-> <<>>, csvData |-> NullTable]

\* 352-355
ExecutableNotFound ==
    [NoOutcome EXCEPT !.fields = {"success", "error"},
                      !.error = <<"Executable not found: ">>]
\* 380-383
ConfigNotFound ==
    [NoOutcome EXCEPT !.fields = {"success", "error"},
                      !.error = <<"Configuration file not found. ">>]
\* 492-495
FailedToStart ==
    [NoOutcome EXCEPT !.fields = {"success", "error"},
                      !.error = <<"Failed to start search process: ">>]

UnknownError == <<"Unknown error occurred">>

\* a variant of the failure outcome without the generic message
CloseOutcomeStderrOnly(code, stdout, stderr, outputFile) ==
    IF code = 0
    THEN [fields |-> {"success", "outputFile", "output", "csvData"},
          success |-> TRUE, error |-> <<>>, output |-> stdout,
          outputFile |-> outputFile, csvData |-> extractCSVData(stdout)]
    ELSE [fields |-> {"success", "error", "output"},
          success |-> FALSE, error |-> stderr,
          output |-> stdout, outputFile |-> <<>>, csvData |-> NullTable]

\* the 'close' handler's value (472-488)
CloseOutcome(code, stdout, stderr, outputFile) ==
    IF code = 0
    THEN [fields |-> {"success", "outputFile", "output", "csvData"},
          success |-> TRUE, error |-> <<>>, output |-> stdout,
          outputFile |-> outputFile, csvData |-> extractCSVData(stdout)]
    ELSE [fields |-> {"success", "error", "output"},
          success |-> FALSE,
          error |-> IF stderr # <<>> THEN stderr ELSE UnknownError,
          output |-> stdout, outputFile |-> <<>>, csvData |-> NullTable]

\* getExecutablePath (678-728) returns a path; FALSE when it throws
ExecutablePathFound ==
    IF isDev THEN (IF win32 THEN exeExists ELSE TRUE) ELSE exeExists

\* appConfigPath (360-375)
SearchConfigPath(fs, stored) ==
    IF isDev THEN AppDir
    ELSE IF stored # Null /\ Exists(fs, stored) THEN stored
    ELSE UserData

\* a variant without the existence check
ConfigCheckSkipped(fs, configPath) == FALSE

\* the existence check before the launch (379)
ConfigFileMissing(fs, configPath) == ~Exists(fs, configPath)

\* args (388-403)
OutputFile(params) ==
    (IF params.outputDirectory # <<>> THEN params.outputDirectory ELSE <<Documents>>)
        \o <<"/", "business-results-", "TIMESTAMP", Dot, params.outputFormat>>

\* a variant that appends the flag after the output path
SearchArgsFlagLast(params) ==
    <<"-k", params.keyword, "-l", params.location,
      "-r", <<ToString(params.maxResults)>>, "-f", <<params.outputFormat>>>>
        \o <<"-o", OutputFile(params)>>
        \o (IF ~params.enableWebScraping THEN <<"--no-web-scraping">> ELSE <<>>)

SearchArgs(params) ==
    <<"-k", params.keyword, "-l", params.location,
      "-r", <<ToString(params.maxResults)>>, "-f", <<params.outputFormat>>>>
        \o (IF ~params.enableWebScraping THEN <<"--no-web-scraping">> ELSE <<>>)
        \o <<"-o", OutputFile(params)>>

\* a variant that copies whatever userData holds
CopiesConfigAlways(fs, configPath) ==
    /\ ~isDev
    /\ configPath # UserData
    /\ ensureDirectoryWritable(UserData)

\* 405-436: the copy of a fallback config into userData
CopiesConfig(fs, configPath) ==
    /\ ~isDev
    /\ configPath # UserData
    /\ ensureDirectoryWritable(UserData)
    /\ ~Exists(fs, UserData)

\* copyFileSync throws when config.ini cannot be written there
CopyThrows(fs, configPath) ==
    /\ CopiesConfig(fs, configPath)
    /\ ~safeWriteFile(UserData) \/ ~fs[configPath].readable

SearchFiles(fs, configPath) ==
    IF CopiesConfig(fs, configPath) /\ ~CopyThrows(fs, configPath)
    THEN [fs EXCEPT ![UserData] = fs[configPath]]
    ELSE fs

\* cwd
WorkingDirectory(fs, configPath) ==
    IF isDev THEN AppDir
    ELSE IF configPath = UserData THEN UserData
    ELSE IF ensureDirectoryWritable(UserData) /\ ~CopyThrows(fs, configPath)
         THEN UserData
         ELSE configPath

NoProc ==
    [state |-> "none", resolved |-> FALSE, delivered |-> FALSE, chunks |-> <<>>,
     stdout |-> <<>>, stderr |-> <<>>, errChunks |-> 0, errLog |-> <<>>,
     outputFile |-> <<>>,
     args |-> <<>>, cwd |-> Null, code |-> Null]

\* spawn (445-451): the closure of one invocation
Spawned(params, cwd, started) ==
    [NoProc EXCEPT !.state = IF started THEN "running" ELSE "spawnfail",
                   !.outputFile = OutputFile(params),
                   !.args = SearchArgs(params),
                   !.cwd = cwd]

\* the output paths of the forms
OutPaths == {OutputFile(form) : form \in Forms}

\* IPC messages to the renderer
StatusMessage(message) ==
    [type |-> "search-status", op |-> "search-status", proc |-> 0,
     message |-> message, outcome |-> NoOutcome, config |-> NoConfig]
SearchReply(p, outcome) ==
    [type |-> "reply", op |-> "search-businesses", proc |-> p,
     message |-> <<>>, outcome |-> outcome, config |-> NoConfig]
\* the reply of read-csv-file to attempt number attempt for file
ReadReply(file, attempt, read) ==
    [type |-> "reply", op |-> "read-csv-file", proc |-> 0, message |-> <<>>,
     outcome |-> NoOutcome, config |-> NoConfig, file |-> file,
     attempt |-> attempt, read |-> read]
ConfigReply(op, success, config) ==
    [type |-> "reply", op |-> op, proc |-> 0, message |-> <<>>,
     outcome |-> [NoOutcome EXCEPT !.success = success], config |-> config]

\* a variant that delivers the newest message first
SendFirst(ch, m) == <<m>> \o ch

\* webContents.send (458) and the reply of ipcMain.handle: one ordered pipe
\* to the renderer, messages leave in the order they are sent
Send(ch, m) == Append(ch, m)

\* a variant in which a second resolve sends a second reply
ResolveAgain(ch, p, resolved, outcome) == Append(ch, SearchReply(p, outcome))

\* resolve(value): a promise settles once, a later resolve does nothing
Resolve(ch, p, resolved, outcome) ==
    IF resolved THEN ch ELSE Send(ch, SearchReply(p, outcome))

\* a variant that puts the chunk in front of the buffer
StdoutOnDataPrepend(proc, data) ==
    [proc EXCEPT !.stdout = data \o @, !.chunks = Append(@, data)]

\* stdout 'data' (453-459): the closure after the chunk; chunks records the
\* arrivals
StdoutOnData(proc, data) ==
    [proc EXCEPT !.stdout = @ \o data, !.chunks = Append(@, data)]

\* the search-status message of a chunk (458)
StdoutStatus(data) == StatusMessage(Trim(data))

\* a variant that also appends the chunk to the stdout buffer
StderrOnDataToStdout(proc, data) ==
    [proc EXCEPT !.stderr = @ \o data, !.errChunks = @ + 1,
                 !.errLog = Append(@, data), !.stdout = @ \o data]

\* stderr 'data' (461-465)
StderrOnData(proc, data) ==
    [proc EXCEPT !.stderr = @ \o data, !.errChunks = @ + 1,
                 !.errLog = Append(@, data)]

\* an invocation is forgotten once its process has closed and its reply has
\* been delivered
Settle(proc) ==
    IF proc.state = "closed" /\ proc.delivered THEN NoProc ELSE proc

(***************************************************************************)
(* Initial state: a fresh installation after app.whenReady (26-31), which  *)
(* runs initializeConfig twice (28, 208), and after the renderer's         *)
(* constructor, whose load-config call is on its way                       *)
(***************************************************************************)
\* one installation per branch of getExecutablePath and of spawn
Platform(d, w, e) == [isDev |-> d, win32 |-> w, exeExists |-> e]
Platforms ==
    {Platform(FALSE, FALSE, TRUE), Platform(FALSE, FALSE, FALSE),
     Platform(TRUE, FALSE, TRUE), Platform(TRUE, FALSE, FALSE),
     Platform(TRUE, TRUE, FALSE)}

Perm(ud, doc, app) ==
    [d \in {UserData, Documents, AppDir} |->
        IF d = UserData THEN ud ELSE IF d = Documents THEN doc ELSE app]

NoParams == Form(<<>>, <<>>, "", FALSE)
Request(op, params, config) == [op |-> op, params |-> params, config |-> config]

\* electronAPI.readCSVFile(filePath), called by attempt number attempt
ReadRequest(file, attempt) ==
    [op |-> "read-csv-file", params |-> NoParams, config |-> NoConfig,
     file |-> file, attempt |-> attempt]

\* parseAndDisplayResults: the retry loop (529-548)
MaxAttempts == 3
\* a variant that waits the same time before every attempt
RetryDelayConstant(attempt) == 200
\* the setTimeout delay before attempt number attempt, counted from 0
RetryDelay(attempt) == 200 * (attempt + 1)
\* a call inside the loop: the attempt it is at, whether it waits for the
\* timer ("delay") or for the reply ("read"), and the delays it has set so
\* far
Loop(file) ==
    [file |-> file, attempt |-> 0, phase |-> "delay", delays |-> <<RetryDelay(0)>>]
NoLoop == [file |-> <<>>, reads |-> 0, delays |-> <<>>, outcome |-> "none"]
Ended(loop, outcome) ==
    [file |-> loop.file, reads |-> loop.attempt + 1, delays |-> loop.delays,
     outcome |-> outcome]

\* row.a || row.b || ... || '': the first alias that is present and not empty
RECURSIVE FirstOf(_, _)
FirstOf(row, keys) ==
    IF keys = <<>> THEN <<>>
    ELSE IF Head(keys) \in DOMAIN row /\ row[Head(keys)] # <<>> THEN row[Head(keys)]
    ELSE FirstOf(row, Tail(keys))

UnknownBusiness == <<"Unknown Business">>
NameOf(row) ==
    IF FirstOf(row, <<<<"name">>>>) # <<>> THEN FirstOf(row, <<<<"name">>>>)
    ELSE UnknownBusiness

\* the record built from a row of result.csvData (502-516)
BusinessFromStdout(row) ==
    [name |-> NameOf(row),
     address |-> FirstOf(row, <<<<"address">>>>),
     phone |-> FirstOf(row, <<<<"phone", "_", "number">>, <<"phonenumber">>, <<"phone">>>>),
     email |-> FirstOf(row, <<<<"email">>>>),
     website |-> FirstOf(row, <<<<"website">>>>),
     rating |-> FirstOf(row, <<<<"rating">>>>),
     reviews |-> FirstOf(row, <<<<"total", "_", "ratings">>, <<"totalratings">>,
                                <<"reviews">>>>),
     additional_numbers |->
         FirstOf(row, <<<<"additional", "_", "numbers">>, <<"additionalnumbers">>>>),
     additional_emails |->
         FirstOf(row, <<<<"additional", "_", "emails">>, <<"additionalemails">>>>),
     social_media_links |->
         FirstOf(row, <<<<"social", "_", "media", "_", "links">>,
                        <<"socialmedialinks">>>>)]

\* the record built from a row of the result file (533-541)
BusinessFromFile(row) ==
    [name |-> NameOf(row),
     address |-> FirstOf(row, <<<<"address">>>>),
     phone |-> FirstOf(row, <<<<"phone", "_", "number">>, <<"phonenumber">>, <<"phone">>>>),
     email |-> FirstOf(row, <<<<"email">>>>),
     website |-> FirstOf(row, <<<<"website">>>>),
     rating |-> FirstOf(row, <<<<"rating">>>>),
     reviews |-> FirstOf(row, <<<<"total", "_", "ratings">>, <<"totalratings">>,
                                <<"reviews">>>>)]

\* result.outputFile.endsWith('.csv') (525)
EndsWithCsv(file) ==
    Len(file) >= 2 /\ SubSeq(file, Len(file) - 1, Len(file)) = <<Dot, "csv">>

NoOp == [op |-> "none", success |-> FALSE, attempts |-> <<>>, prePath |-> Null]

NoSearchSince == [started |-> FALSE, ended |-> FALSE]

RendererInit ==
    /\ procs = [p \in Procs |-> NoProc]
    /\ requests = <<Request("load-config", NoParams, NoConfig)>>
    /\ channel = <<>>
    /\ isSearching = FALSE
    /\ currentStage = "idle"
    /\ scrapingProgress = [current |-> 0, total |-> 0]
    /\ searchDetails = "initial"
    /\ searchBtnDisabled = FALSE
    /\ apiKeyField = <<>>
    /\ lastOutputFile = <<>>
    /\ resetTimers = 0
    /\ statusLog = <<>>
    /\ result = NoOutcome
    /\ submitRejected = FALSE
    /\ sinceSave = NoSearchSince
    /\ lastSearchResults = <<>>
    /\ loops = {}
    /\ lastLoop = NoLoop

\* the main process after app.whenReady on an installation whose disk and
\* store are preFiles, preStored, preConfig
MainInit(platforms, perms, preFiles, preStored, preConfig) ==
    /\ \E pl \in platforms :
          /\ isDev = pl.isDev
          /\ win32 = pl.win32
          /\ exeExists = pl.exeExists
    /\ templateExists = TRUE
    /\ outFiles = [path \in OutPaths |-> NoFile]
    /\ perm \in perms
    /\ \E fs \in preFiles, stored \in preStored :
          LET first == InitializeConfig(fs, stored)
              second == InitializeConfig(first.files, first.storePath)
          IN  /\ files = second.files
              /\ storePath = second.storePath
    /\ storeConfig \in preConfig
    /\ lastOp = NoOp

NoFiles == [l \in Locs |-> NoFile]
\* a configuration saved by an earlier run of the application
SavedFiles ==
    [l \in Locs |-> IF l \in {UserData, AppDir} THEN File(ConfigContent(UserKey))
                    ELSE NoFile]

\* a fresh installation
Init ==
    /\ MainInit(Platforms, {Perm("rw", "rw", "rw"), Perm("ro", "ro", "rw")},
                {NoFiles}, {Null}, {NoConfig})
    /\ RendererInit

\* an installation that was configured before; its files may have been
\* deleted since, and its directories may have become read-only
RunInit ==
    /\ MainInit(Platforms, {Perm("rw", "rw", "rw"), Perm("ro", "ro", "rw")},
                {NoFiles, SavedFiles}, {UserData}, {Config(UserKey)})
    /\ RendererInit

(***************************************************************************)
(* Renderer: user events                                                   *)
(***************************************************************************)
St == [stage |-> currentStage, current |-> scrapingProgress.current,
       total |-> scrapingProgress.total, details |-> searchDetails,
       label |-> <<>>, error |-> <<>>, rule |-> 0]

\* apiKeyField 'input' -> validateApiKey (39)
InputApiKey(v) ==
    /\ v # apiKeyField
    /\ apiKeyField' = v
    /\ currentStage' = ValidateStage(v, currentStage)
    /\ searchBtnDisabled' = ValidateDisabled(v)
    /\ UNCHANGED <<envVars, cfgVars, mainVars, isSearching, scrapingProgress, searchDetails,
                   lastOutputFile, resetTimers, statusLog, result, submitRejected, sinceSave,
                   tableVars>>

\* save-config calls whose timer has not fired yet
PendingSaves ==
    Len(SelectSeq(requests, LAMBDA r : r.op = "save-config"))
        + Len(SelectSeq(channel, LAMBDA m : m.op = "save-config"))
        + resetTimers

\* handleConfigSave up to its await (142-156)
SubmitConfigForm ==
    /\ IF Trim(apiKeyField) = <<>>
       THEN /\ currentStage' = "error"
            /\ UNCHANGED requests
       ELSE /\ Len(requests) < MaxRequests
            /\ PendingSaves < MaxTimers
            /\ requests' = Append(requests,
                                  Request("save-config", NoParams, Config(apiKeyField)))
            /\ UNCHANGED currentStage
    /\ UNCHANGED <<envVars, cfgVars, procs, channel, isSearching, scrapingProgress, searchDetails,
                   searchBtnDisabled, apiKeyField, lastOutputFile, resetTimers,
                   statusLog, result, submitRejected, sinceSave, tableVars>>

\* a variant without the isSearching test
NeverRejects == FALSE

\* handleSearch: the isSearching test (206-208)
HandleSearchRejects == isSearching

\* handleSearch (203-237) and, when it gets there, startSearch up to its
\* await (239-250)
SubmitSearchForm(form) ==
    /\ IF HandleSearchRejects
       THEN /\ submitRejected' = TRUE
            /\ UNCHANGED <<requests, isSearching, currentStage, scrapingProgress, searchDetails,
                           searchBtnDisabled, statusLog, result, sinceSave,
                           lastSearchResults>>
       ELSE IF ~IsValidApiKey(apiKeyField)
       THEN /\ currentStage' = ValidateStage(apiKeyField, currentStage)
            /\ searchBtnDisabled' = ValidateDisabled(apiKeyField)
            /\ UNCHANGED <<requests, isSearching, scrapingProgress, searchDetails, statusLog, result,
                           submitRejected, sinceSave, lastSearchResults>>
       ELSE IF \/ Trim(form.keyword) = <<>>
               \/ Trim(form.location) = <<>>
               \/ form.outputDirectory = <<>>
       THEN /\ currentStage' = "error"
            /\ searchBtnDisabled' = ValidateDisabled(apiKeyField)
            /\ UNCHANGED <<requests, isSearching, scrapingProgress, searchDetails, statusLog, result,
                           submitRejected, sinceSave, lastSearchResults>>
       ELSE /\ Len(requests) < MaxRequests
            /\ isSearching' = TRUE
            /\ searchBtnDisabled' = TRUE
            /\ LET st == setStatusState(clearStatus(St), "searching")    \* 242, 245
               IN  /\ scrapingProgress' = [current |-> st.current, total |-> st.total]
                   /\ currentStage' = st.stage
            /\ searchDetails' = "preparing"                   \* 247
            /\ requests' = Append(requests, Request("search-businesses", form, NoConfig))
            /\ statusLog' = <<>>
            /\ result' = NoOutcome
            /\ submitRejected' = FALSE
            /\ sinceSave' = IF resetTimers > 0 THEN [sinceSave EXCEPT !.started = TRUE]
                            ELSE sinceSave
            /\ lastSearchResults' = <<>>                       \* clearResults
    /\ UNCHANGED <<envVars, cfgVars, procs, channel, apiKeyField, lastOutputFile,
                   resetTimers, loops, lastLoop>>

\* the setTimeout callback of handleConfigSave (166-170)
ResetTimerFires ==
    /\ resetTimers > 0
    /\ resetTimers' = resetTimers - 1
    /\ currentStage' = IF currentStage = "complete" THEN "idle" ELSE currentStage
    /\ sinceSave' = IF resetTimers = 1 THEN NoSearchSince ELSE sinceSave
    /\ UNCHANGED <<envVars, cfgVars, mainVars, isSearching, scrapingProgress, searchDetails,
                   searchBtnDisabled, apiKeyField, lastOutputFile, statusLog, result,
                   submitRejected, tableVars>>

(***************************************************************************)
(* Renderer: IPC deliveries                                                *)
(***************************************************************************)
\* one updateStatus call: its message, and the business name and the error
\* message it displayed
LogEntry(message, st, after) ==
    [message |-> message, afterOutcome |-> after, label |-> st.label,
     error |-> st.error, rule |-> st.rule, details |-> st.details]

\* onSearchStatus callback (65-67)
ReceiveStatus ==
    /\ channel # <<>>
    /\ Head(channel).type = "search-status"
    /\ LET m == Head(channel)
           st == updateStatus(St, m.message)
       IN  /\ currentStage' = st.stage
           /\ scrapingProgress' = [current |-> st.current, total |-> st.total]
           /\ searchDetails' = st.details
           /\ statusLog' = Append(statusLog, LogEntry(m.message, st, result.fields # {}))
    /\ channel' = Tail(channel)
    /\ UNCHANGED <<envVars, cfgVars, procs, requests, isSearching, searchBtnDisabled,
                   apiKeyField, lastOutputFile, resetTimers, result, submitRejected, sinceSave,
                   tableVars>>

\* startSearch 269-277: the lines of result.output it passes to updateStatus
ReplayLines(outcome) ==
    IF ~outcome.success /\ outcome.output # <<>>
    THEN MapSeq(Trim, SelectSeq(SplitLines(outcome.output), NonBlank))
    ELSE <<>>

RECURSIVE ReplayLog(_, _)
ReplayLog(st, lines) ==
    IF lines = <<>> THEN <<>>
    ELSE LET next == updateStatus(st, Head(lines))
         IN  <<LogEntry(Head(lines), next, TRUE)>> \o ReplayLog(next, Tail(lines))

RECURSIVE UpdateAll(_, _)
UpdateAll(st, lines) ==
    IF lines = <<>> THEN st ELSE UpdateAll(updateStatus(st, Head(lines)), Tail(lines))

\* a variant that leaves the flag after a failure outcome
FinallySearchingKeptOnFailure(outcome) == ~outcome.success

\* the finally block (282-284): isSearching after any outcome
FinallySearching(outcome) == FALSE

\* startSearch after its await (252-284): showResults or showError, the
\* replay, and the finally block
ReceiveSearchReply ==
    /\ channel # <<>>
    /\ Head(channel).type = "reply"
    /\ Head(channel).op = "search-businesses"
    /\ LET m == Head(channel)
           outcome == m.outcome
           lines == ReplayLines(outcome)
           shown == setStatusState(St, IF outcome.success THEN "complete" ELSE "error")
           st == UpdateAll(shown, lines)
       IN  /\ result' = outcome
           /\ lastOutputFile' = IF outcome.success THEN outcome.outputFile
                                ELSE lastOutputFile
           /\ currentStage' = st.stage
           /\ scrapingProgress' = [current |-> st.current, total |-> st.total]
           /\ searchDetails' = st.details
           /\ statusLog' = statusLog \o ReplayLog(shown, lines)
           /\ procs' = IF m.proc = 0 THEN procs
                       ELSE [procs EXCEPT ![m.proc] = Settle([@ EXCEPT !.delivered = TRUE])]
           \* showResults: parseAndDisplayResults up to its first await
           /\ IF ~outcome.success
              THEN UNCHANGED <<lastSearchResults, loops>>
              ELSE IF ~outcome.csvData.null /\ Len(outcome.csvData.rows) > 0
              THEN /\ lastSearchResults' = MapSeq(BusinessFromStdout, outcome.csvData.rows)
                   /\ UNCHANGED loops
              ELSE IF outcome.outputFile # <<>> /\ EndsWithCsv(outcome.outputFile)
              THEN /\ loops' = loops \cup {Loop(outcome.outputFile)}
                   /\ UNCHANGED lastSearchResults
              ELSE /\ lastSearchResults' = <<>>                \* displayNoResults
                   /\ UNCHANGED loops
    /\ isSearching' = FinallySearching(Head(channel).outcome)
    /\ searchBtnDisabled' = FALSE
    /\ sinceSave' = IF resetTimers > 0 /\ Head(channel).outcome.success
                    THEN [sinceSave EXCEPT !.ended = TRUE] ELSE sinceSave
    /\ channel' = Tail(channel)
    /\ UNCHANGED <<envVars, cfgVars, requests, apiKeyField, resetTimers, submitRejected,
                   lastLoop>>

\* the timer of 530 fires: the call asks for the file (532)
RetryTimerFires(loop) ==
    /\ loop \in loops
    /\ loop.phase = "delay"
    /\ Len(requests) < MaxRequests
    /\ requests' = Append(requests, ReadRequest(loop.file, loop.attempt))
    /\ loops' = (loops \ {loop}) \cup {[loop EXCEPT !.phase = "read"]}
    /\ UNCHANGED <<envVars, cfgVars, procs, channel, isSearching, currentStage,
                   scrapingProgress, searchDetails, searchBtnDisabled, apiKeyField, lastOutputFile,
                   resetTimers, statusLog, result, submitRejected, sinceSave, lastSearchResults,
                   lastLoop>>

\* parseAndDisplayResults after the await of 532 (533-548, 551-553)
ReceiveReadReply ==
    /\ channel # <<>>
    /\ Head(channel).type = "reply"
    /\ Head(channel).op = "read-csv-file"
    /\ LET m == Head(channel)
           waiting == {l \in loops : /\ l.file = m.file
                                     /\ l.attempt = m.attempt
                                     /\ l.phase = "read"}
       IN  IF waiting = {}
           THEN UNCHANGED <<lastSearchResults, loops, lastLoop>>
           ELSE LET loop == CHOOSE l \in waiting : TRUE IN
                IF m.read.success /\ Len(m.read.data) > 0
                THEN /\ lastSearchResults' = MapSeq(BusinessFromFile, m.read.data)
                     /\ loops' = loops \ {loop}
                     /\ lastLoop' = Ended(loop, "rows")
                ELSE IF loop.attempt + 1 < MaxAttempts
                THEN /\ loops' = (loops \ {loop}) \cup
                            {[loop EXCEPT !.attempt = @ + 1, !.phase = "delay",
                                          !.delays = Append(@, RetryDelay(loop.attempt + 1))]}
                     /\ UNCHANGED <<lastSearchResults, lastLoop>>
                ELSE /\ lastSearchResults' = <<>>              \* displayNoResults
                     /\ loops' = loops \ {loop}
                     /\ lastLoop' = Ended(loop, "no-data")
    /\ channel' = Tail(channel)
    /\ UNCHANGED <<envVars, cfgVars, procs, requests, isSearching, currentStage,
                   scrapingProgress, searchDetails, searchBtnDisabled, apiKeyField, lastOutputFile,
                   resetTimers, statusLog, result, submitRejected, sinceSave>>

\* handleConfigSave after its await (158-184)
ReceiveSaveReply ==
    /\ channel # <<>>
    /\ Head(channel).type = "reply"
    /\ Head(channel).op = "save-config"
    /\ IF Head(channel).outcome.success
       THEN /\ currentStage' = ValidateStage(apiKeyField, "complete")
            /\ searchBtnDisabled' = ValidateDisabled(apiKeyField)
            /\ resetTimers' = resetTimers + 1
            /\ sinceSave' = NoSearchSince
       ELSE /\ currentStage' = "error"
            /\ UNCHANGED <<searchBtnDisabled, resetTimers, sinceSave>>
    /\ channel' = Tail(channel)
    /\ UNCHANGED <<envVars, cfgVars, procs, requests, isSearching, scrapingProgress, searchDetails,
                   apiKeyField, lastOutputFile, statusLog, result, submitRejected,
                   tableVars>>

\* loadConfiguration after its await (73-80)
ReceiveLoadReply ==
    /\ channel # <<>>
    /\ Head(channel).type = "reply"
    /\ Head(channel).op = "load-config"
    /\ LET m == Head(channel)
           field == IF m.outcome.success /\ m.config.hasKey /\ m.config.apiKey # <<>>
                    THEN m.config.apiKey ELSE apiKeyField
       IN  /\ apiKeyField' = field
           /\ currentStage' = ValidateStage(field, currentStage)
           /\ searchBtnDisabled' = ValidateDisabled(field)
    /\ channel' = Tail(channel)
    /\ UNCHANGED <<envVars, cfgVars, procs, requests, isSearching, scrapingProgress, searchDetails,
                   lastOutputFile, resetTimers, statusLog, result, submitRejected, sinceSave,
                   tableVars>>

(***************************************************************************)
(* Main process: ipcMain handlers                                          *)
(***************************************************************************)
HandleSaveConfig ==
    /\ requests # <<>>
    /\ Head(requests).op = "save-config"
    /\ LET config == Head(requests).config IN
          /\ files' = SaveFiles(files, config)
          /\ storePath' = SaveStorePath(storePath)
          /\ storeConfig' = SaveStoreConfig(storeConfig, config)
          /\ lastOp' = [op |-> "save", success |-> ConfigSaved,
                        attempts |-> SaveAttempts, prePath |-> storePath]
          /\ channel' = Send(channel, ConfigReply("save-config", SaveReply.success, NoConfig))
    /\ requests' = Tail(requests)
    /\ UNCHANGED <<envVars, procs, rendererVars>>

HandleLoadConfig ==
    /\ requests # <<>>
    /\ Head(requests).op = "load-config"
    /\ storePath' = LoadStorePath(files, storePath)
    /\ lastOp' = [op |-> "load", success |-> TRUE,
                  attempts |-> LoadReads(files, storePath), prePath |-> storePath]
    /\ channel' = Send(channel,
                       ConfigReply("load-config", TRUE,
                                   LoadReply(files, storePath, storeConfig).config))
    /\ requests' = Tail(requests)
    /\ UNCHANGED <<envVars, files, storeConfig, procs, rendererVars>>

\* read-csv-file (525-580)
HandleReadCsvFile ==
    /\ requests # <<>>
    /\ Head(requests).op = "read-csv-file"
    /\ channel' = Send(channel, ReadReply(Head(requests).file, Head(requests).attempt,
                                          ReadCsvFile(outFiles, Head(requests).file)))
    /\ requests' = Tail(requests)
    /\ UNCHANGED <<envVars, cfgVars, procs, rendererVars>>

FreeSlots == {p \in Procs : procs[p].state = "none"}

\* the executor of the promise (342-504), synchronous up to spawn
HandleSearchBusinesses ==
    /\ requests # <<>>
    /\ Head(requests).op = "search-businesses"
    /\ FreeSlots # {}
    /\ LET params == Head(requests).params
           configPath == SearchConfigPath(files, storePath)
           p == CHOOSE q \in FreeSlots : \A r \in FreeSlots : q <= r
       IN  IF ~ExecutablePathFound
           THEN /\ channel' = Send(channel, SearchReply(0, ExecutableNotFound))
                /\ UNCHANGED <<procs, files>>
           ELSE IF ConfigFileMissing(files, configPath)
           THEN /\ channel' = Send(channel, SearchReply(0, ConfigNotFound))
                /\ UNCHANGED <<procs, files>>
           ELSE /\ files' = SearchFiles(files, configPath)
                /\ \E started \in (IF exeExists THEN BOOLEAN ELSE {FALSE}) :
                      procs' = [procs EXCEPT ![p] =
                                   Spawned(params, WorkingDirectory(files, configPath),
                                           started)]
                /\ UNCHANGED channel
    /\ lastOp' = [op |-> "search", success |-> TRUE, attempts |-> <<>>,
                  prePath |-> storePath,
                  \* line 426 was reached and found a config.ini in userData
                  found |-> LET configPath == SearchConfigPath(files, storePath)
                            IN  /\ ExecutablePathFound
                                /\ ~ConfigFileMissing(files, configPath)
                                /\ ~isDev
                                /\ configPath # UserData
                                /\ ensureDirectoryWritable(UserData)
                                /\ Exists(files, UserData)]
    /\ requests' = Tail(requests)
    /\ UNCHANGED <<envVars, storePath, storeConfig, rendererVars>>

(***************************************************************************)
(* Worker process events                                                   *)
(***************************************************************************)
StdoutArrives(p, data) ==
    /\ procs[p].state = "running"
    /\ procs' = [procs EXCEPT ![p] = StdoutOnData(@, data)]
    /\ channel' = Send(channel, StdoutStatus(data))
    /\ UNCHANGED <<envVars, cfgVars, requests, rendererVars>>

StdoutData(p, data) ==
    /\ Len(procs[p].chunks) < MaxChunks
    /\ StdoutArrives(p, data)

StderrArrives(p, data) ==
    /\ procs[p].state = "running"
    /\ procs' = [procs EXCEPT ![p] = StderrOnData(@, data)]
    /\ UNCHANGED <<envVars, cfgVars, requests, channel, rendererVars>>

StderrData(p, data) ==
    /\ procs[p].errChunks < MaxErrChunks
    /\ StderrArrives(p, data)

\* the worker writes its result file, the header or all of it
WorkerWritesFile(p, text) ==
    /\ procs[p].state = "running"
    /\ procs[p].outputFile \in OutPaths
    /\ outFiles[procs[p].outputFile] # File(text)
    /\ outFiles' = [outFiles EXCEPT ![procs[p].outputFile] = File(text)]
    /\ UNCHANGED <<isDev, win32, exeExists, templateExists, perm, cfgVars, mainVars,
                   rendererVars>>

\* the result file changes on disk while a retry loop waits for it
FileAppears(loop, text) ==
    /\ outFiles[loop.file] # File(text)
    /\ outFiles' = [outFiles EXCEPT ![loop.file] = File(text)]
    /\ UNCHANGED <<isDev, win32, exeExists, templateExists, perm, cfgVars, mainVars,
                   rendererVars>>

\* 'error' (491-496): the spawn failed
ProcError(p) ==
    /\ procs[p].state = "spawnfail"
    /\ channel' = Resolve(channel, p, procs[p].resolved, FailedToStart)
    /\ procs' = [procs EXCEPT ![p] = [@ EXCEPT !.state = "errored", !.resolved = TRUE]]
    /\ UNCHANGED <<envVars, cfgVars, requests, rendererVars>>

\* 'close' (467-489): after the last 'data' of a worker that ran, or after
\* the 'error' of one that did not start
ProcClose(p, code) ==
    /\ \/ procs[p].state = "running" /\ code \in ExitCodes
       \/ procs[p].state = "errored" /\ code = SpawnFailCode
    /\ channel' = Resolve(channel, p, procs[p].resolved,
                          CloseOutcome(code, procs[p].stdout, procs[p].stderr,
                                       procs[p].outputFile))
    /\ procs' = [procs EXCEPT ![p] =
                    Settle([@ EXCEPT !.state = "closed", !.resolved = TRUE,
                                     !.code = code])]
    /\ UNCHANGED <<envVars, cfgVars, requests, rendererVars>>

Next ==
    \/ \E v \in FieldValues : InputApiKey(v)
    \/ SubmitConfigForm
    \/ \E form \in Forms : SubmitSearchForm(form)
    \/ ResetTimerFires
    \/ ReceiveStatus
    \/ ReceiveSearchReply
    \/ ReceiveSaveReply
    \/ ReceiveLoadReply
    \/ HandleSaveConfig
    \/ HandleLoadConfig
    \/ HandleSearchBusinesses
    \/ \E p \in Procs : StdoutData(p, LineFound)
    \/ \E p \in Procs, data \in StderrChunks : StderrData(p, data)
    \/ \E p \in Procs : ProcError(p)
    \/ \E p \in Procs, code \in ExitCodes \cup {SpawnFailCode} : ProcClose(p, code)

\* the application on a fresh installation; the worker writes whole lines;
\* the retry loop of parseAndDisplayResults is followed in ResultSpec
Spec == Init /\ [][Next]_vars

\* the search run alone: no configuration or api-key events

RunNext ==
    \/ SubmitSearchForm(ValidForm)
    \/ ReceiveStatus
    \/ ReceiveSearchReply
    \/ ReceiveLoadReply
    \/ HandleLoadConfig
    \/ HandleSearchBusinesses
    \/ \E p \in Procs, data \in StdoutChunks : StdoutData(p, data)
    \/ \E p \in Procs, data \in StderrChunks : StderrData(p, data)
    \/ \E p \in Procs : ProcError(p)
    \/ \E p \in Procs, code \in ExitCodes \cup {SpawnFailCode} : ProcClose(p, code)

RunSpec == RunInit /\ [][RunNext]_vars

(***************************************************************************)
(* The two streams of a worker: chunks of both arrive in every order       *)
(***************************************************************************)
MaxStreamErr == 2
StreamOut == {Hello, LineFound}
StreamErr == {<<"boom", "\n">>, <<"warn", "\n">>}

StreamInit ==
    /\ MainInit({Platform(FALSE, FALSE, TRUE)}, {Perm("rw", "rw", "rw")},
                {SavedFiles}, {UserData}, {Config(UserKey)})
    /\ RendererInit

StreamNext ==
    \/ SubmitSearchForm(ValidForm)
    \/ ReceiveStatus
    \/ ReceiveSearchReply
    \/ ReceiveLoadReply
    \/ HandleLoadConfig
    \/ HandleSearchBusinesses
    \/ \E p \in Procs, data \in StreamOut : StdoutData(p, data)
    \/ \E p \in Procs, data \in StreamErr :
          procs[p].errChunks < MaxStreamErr /\ StderrArrives(p, data)
    \/ \E p \in Procs, code \in ExitCodes : ProcClose(p, code)

StreamSpec == StreamInit /\ [][StreamNext]_vars

\* a worker that ran or failed to start can close
Closable == \E p \in Procs : procs[p].state \in {"running", "errored"}

\* the search run with its scheduling: the main process answers an invoke,
\* 'error' follows a failed spawn, the renderer's event loop takes the next
\* message, and a worker exits in the end.  The fairness of the steps that
\* parse text has its ENABLED written out.
RunLiveSpec ==
    /\ RunSpec
    /\ WF_vars(HandleLoadConfig)
    /\ WF_vars(HandleSearchBusinesses)
    /\ WF_vars(\E p \in Procs : ProcError(p))
    /\ ([]<>(~Closable)
          \/ []<><<\E p \in Procs, code \in ExitCodes \cup {SpawnFailCode} :
                     ProcClose(p, code)>>_vars)
    /\ ([]<>(channel = <<>>)
          \/ []<><<ReceiveStatus \/ ReceiveSearchReply \/ ReceiveLoadReply>>_vars)

(***************************************************************************)
(* Configuration handling alone, in an installation whose directories     *)
(* change their permissions and lose their files while the application     *)
(* runs                                                                    *)
(***************************************************************************)
ConfigPlatforms == {Platform(FALSE, FALSE, TRUE), Platform(TRUE, FALSE, TRUE)}
Perms == {"rw", "filero", "ro"}

ConfigInit ==
    /\ MainInit(ConfigPlatforms,
                {Perm("rw", "rw", "rw"), Perm("filero", "rw", "rw"),
                 Perm("ro", "rw", "rw"), Perm("ro", "ro", "rw")},
                {NoFiles}, {Null}, {NoConfig})
    /\ RendererInit

\* app 'activate' with no window left (41-46): initializeConfig, and a new
\* window whose renderer starts over; what was on its way to the old window
\* is gone
Activate ==
    /\ requests = <<>>
    /\ \A p \in Procs : procs[p].state = "none"
    /\ LET init == InitializeConfig(files, storePath)
       IN  /\ files' = init.files
           /\ storePath' = init.storePath
    /\ lastOp' = [op |-> "init", success |-> TRUE, attempts |-> <<>>,
                  prePath |-> storePath]
    /\ requests' = <<Request("load-config", NoParams, NoConfig)>>
    /\ channel' = <<>>
    /\ isSearching' = FALSE
    /\ currentStage' = "idle"
    /\ scrapingProgress' = [current |-> 0, total |-> 0]
    /\ searchDetails' = "initial"
    /\ searchBtnDisabled' = FALSE
    /\ apiKeyField' = <<>>
    /\ lastOutputFile' = <<>>
    /\ resetTimers' = 0
    /\ statusLog' = <<>>
    /\ result' = NoOutcome
    /\ submitRejected' = FALSE
    /\ sinceSave' = NoSearchSince
    /\ lastSearchResults' = <<>>
    /\ loops' = {}
    /\ lastLoop' = NoLoop
    /\ UNCHANGED <<envVars, storeConfig, procs>>

\* the installation: a directory changes its permissions
SetPerm(dir, v) ==
    /\ perm[dir] # v
    /\ perm' = [perm EXCEPT ![dir] = v]
    /\ UNCHANGED <<isDev, win32, exeExists, templateExists, outFiles, cfgVars,
                   mainVars, rendererVars>>

\* the installation: the config.ini of a writable directory is deleted
DeleteFile(loc) ==
    /\ Exists(files, loc)
    /\ perm[loc] = "rw"
    /\ files' = [files EXCEPT ![loc] = NoFile]
    /\ UNCHANGED <<envVars, storePath, storeConfig, lastOp, mainVars, rendererVars>>

\* config.ini texts without a key: an edited file, and an entry with
\* nothing after the equals sign
KeylessTexts == {<<"# edited", "\n">>, ConfigContent(<<>>)}

\* the installation: a config.ini is edited so that it holds no key, or
\* becomes unreadable
DamageFile(loc, file) ==
    /\ Exists(files, loc)
    /\ files[loc] # file
    /\ files' = [files EXCEPT ![loc] = file]
    /\ UNCHANGED <<envVars, storePath, storeConfig, lastOp, mainVars, rendererVars>>

ConfigNext ==
    \/ InputApiKey(UserKey)
    \/ SubmitConfigForm
    \/ ResetTimerFires
    \/ ReceiveSaveReply
    \/ ReceiveLoadReply
    \/ HandleSaveConfig
    \/ HandleLoadConfig
    \/ Activate
    \/ \E dir \in {UserData, Documents}, v \in Perms : SetPerm(dir, v)
    \/ \E loc \in {UserData, Documents} : DeleteFile(loc)
    \/ \E loc \in {UserData, Documents},
          file \in {File(text) : text \in KeylessTexts} \cup {Unreadable} :
          DamageFile(loc, file)

(***************************************************************************)
(* Searches in a packaged installation whose userData directory changes    *)
(* its permissions and whose userData config.ini is deleted or edited      *)
(***************************************************************************)
\* what save-config left when it fell back to the documents directory
FallbackFiles ==
    [l \in Locs |-> IF l = Documents THEN File(ConfigContent(UserKey)) ELSE NoFile]

WorkDirInit ==
    /\ MainInit({Platform(FALSE, FALSE, TRUE), Platform(TRUE, FALSE, TRUE)},
                {Perm("rw", "rw", "rw"), Perm("ro", "rw", "rw")},
                {NoFiles, FallbackFiles}, {Documents}, {Config(UserKey)})
    /\ RendererInit

WorkDirNext ==
    \/ SubmitSearchForm(ValidForm)
    \/ ReceiveSearchReply
    \/ ReceiveLoadReply
    \/ HandleLoadConfig
    \/ HandleSearchBusinesses
    \/ \E p \in Procs : ProcError(p)
    \/ \E p \in Procs, code \in ExitCodes \cup {SpawnFailCode} : ProcClose(p, code)
    \/ \E v \in Perms : SetPerm(UserData, v)
    \/ DeleteFile(UserData)
    \/ \E file \in {File(TemplateContent), Unreadable} : DamageFile(UserData, file)

WorkDirSpec == WorkDirInit /\ [][WorkDirNext]_vars

(***************************************************************************)
(* The search-businesses handler under every caller of the preload API:    *)
(* the parameters need not have passed handleSearch                        *)
(***************************************************************************)
ArgParams ==
    {ValidForm, [ValidForm EXCEPT !.maxResults = 10],
     Form(<<"p">>, <<"out">>, "json", FALSE),
     Form(<<"p">>, <<>>, "csv", TRUE),
     Form(<<"p">>, <<>>, "json", FALSE)}

ArgsInit ==
    /\ MainInit({Platform(FALSE, FALSE, TRUE), Platform(TRUE, FALSE, TRUE)},
                {Perm("rw", "rw", "rw")}, {SavedFiles}, {UserData}, {Config(UserKey)})
    /\ RendererInit

\* electronAPI.searchBusinesses(searchParams) (preload 14)
InvokeSearchBusinesses(params) ==
    /\ Len(requests) < MaxRequests
    /\ requests' = Append(requests, Request("search-businesses", params, NoConfig))
    /\ UNCHANGED <<envVars, cfgVars, procs, channel, rendererVars>>

\* the promise of that call settles
CallerReceivesReply ==
    /\ channel # <<>>
    /\ Head(channel).type = "reply"
    /\ Head(channel).op = "search-businesses"
    /\ procs' = LET m == Head(channel)
                IN  IF m.proc = 0 THEN procs
                    ELSE [procs EXCEPT ![m.proc] = Settle([@ EXCEPT !.delivered = TRUE])]
    /\ channel' = Tail(channel)
    /\ UNCHANGED <<envVars, cfgVars, requests, rendererVars>>

ArgsNext ==
    \/ \E params \in ArgParams : InvokeSearchBusinesses(params)
    \/ CallerReceivesReply
    \/ ReceiveLoadReply
    \/ HandleLoadConfig
    \/ HandleSearchBusinesses
    \/ \E p \in Procs : ProcError(p)
    \/ \E p \in Procs, code \in ExitCodes \cup {SpawnFailCode} : ProcClose(p, code)

ArgsSpec == ArgsInit /\ [][ArgsNext]_vars

(***************************************************************************)
(* The search run of a worker that writes the markers in any order        *)
(***************************************************************************)
ExtractNext ==
    \/ SubmitSearchForm(ValidForm)
    \/ ReceiveStatus
    \/ ReceiveSearchReply
    \/ ReceiveLoadReply
    \/ HandleLoadConfig
    \/ HandleSearchBusinesses
    \/ \E p \in Procs, data \in MarkerChunks : StdoutData(p, data)
    \/ \E p \in Procs : ProcError(p)
    \/ \E p \in Procs, code \in ExitCodes \cup {SpawnFailCode} : ProcClose(p, code)

ExtractSpec == RunInit /\ [][ExtractNext]_vars

(***************************************************************************)
(* The search run of a worker that writes the classifier's lines           *)
(***************************************************************************)
ClassifyNext ==
    \/ SubmitSearchForm(ValidForm)
    \/ ReceiveStatus
    \/ ReceiveSearchReply
    \/ ReceiveLoadReply
    \/ HandleLoadConfig
    \/ HandleSearchBusinesses
    \/ \E p \in Procs, data \in ClassifierChunks : StdoutData(p, data)
    \/ \E p \in Procs : ProcError(p)
    \/ \E p \in Procs, code \in ExitCodes \cup {SpawnFailCode} : ProcClose(p, code)

ClassifySpec == RunInit /\ [][ClassifyNext]_vars

(***************************************************************************)
(* The results table: a worker that writes its table to stdout, to its     *)
(* result file, or nowhere, and the renderer's retry loop                  *)
(***************************************************************************)
ResultInit ==
    /\ MainInit({Platform(FALSE, FALSE, TRUE)}, {Perm("rw", "rw", "rw")},
                {SavedFiles}, {UserData}, {Config(UserKey)})
    /\ RendererInit

\* the user searches again when the table of the last search has settled
ResultNext ==
    \/ loops = {} /\ SubmitSearchForm(ValidForm)
    \/ ReceiveSearchReply
    \/ ReceiveLoadReply
    \/ ReceiveStatus
    \/ \E loop \in loops : RetryTimerFires(loop)
    \/ ReceiveReadReply
    \/ HandleLoadConfig
    \/ HandleSearchBusinesses
    \/ HandleReadCsvFile
    \/ \E p \in Procs : StdoutData(p, FullBlock)
    \/ \E p \in Procs, text \in CsvTexts : WorkerWritesFile(p, text)
    \/ \E loop \in loops, text \in CsvTexts : FileAppears(loop, text)
    \/ \E p \in Procs : ProcClose(p, 0)

ResultSpec == ResultInit /\ [][ResultNext]_vars

\* HandleReadCsvFile is enabled exactly when a read is the oldest request
ReadPending == requests # <<>> /\ Head(requests).op = "read-csv-file"

\* the event loop runs a timer that is due, the main process answers an
\* invoke, and a settled promise resumes its await: weak fairness of the
\* three steps, the one of HandleReadCsvFile with its ENABLED written out
ResultLiveSpec ==
    /\ ResultSpec
    /\ WF_vars(\E loop \in loops : RetryTimerFires(loop))
    /\ ([]<>(~ReadPending) \/ []<><<HandleReadCsvFile>>_vars)
    /\ WF_vars(ReceiveReadReply)

(***************************************************************************)
(* The rules of updateStatus, on lines that several of them match          *)
(***************************************************************************)
RuleNext ==
    \/ SubmitSearchForm(ValidForm)
    \/ ReceiveStatus
    \/ ReceiveSearchReply
    \/ ReceiveLoadReply
    \/ HandleLoadConfig
    \/ HandleSearchBusinesses
    \/ \E p \in Procs, data \in RuleChunks : StdoutData(p, data)
    \/ \E p \in Procs, code \in ExitCodes : ProcClose(p, code)

RuleSpec == ResultInit /\ [][RuleNext]_vars

(***************************************************************************)
(* initializeConfig on an installation whose configuration files are       *)
(* saved, moved to the fallback location and deleted, the copy in the      *)
(* application directory included                                          *)
(***************************************************************************)
InitConfigNext ==
    \/ InputApiKey(UserKey)
    \/ SubmitConfigForm
    \/ ResetTimerFires
    \/ ReceiveSaveReply
    \/ ReceiveLoadReply
    \/ HandleSaveConfig
    \/ HandleLoadConfig
    \/ Activate
    \/ \E dir \in {UserData, Documents}, v \in Perms : SetPerm(dir, v)
    \/ \E loc \in {UserData, Documents, AppDir} : DeleteFile(loc)

InitConfigSpec == ConfigInit /\ [][InitConfigNext]_vars

(***************************************************************************)
(* Save and load: an installation whose store is new while a config.ini of *)
(* an earlier one may lie in userData or in the documents directory; keys  *)
(* as the input field gives them, with blanks around or inside             *)
(***************************************************************************)
OldKey == <<"old">>
LegacyFiles ==
    {[l \in Locs |-> IF l \in where THEN File(ConfigContent(OldKey)) ELSE NoFile] :
         where \in SUBSET {UserData, Documents}}
SaveLoadKeys == {UserKey, <<" ", "k", "2", " ">>, <<"a", " ", "b">>}

SaveLoadInit ==
    /\ MainInit(ConfigPlatforms,
                {Perm("rw", "rw", "rw"), Perm("filero", "rw", "rw"),
                 Perm("ro", "rw", "rw")},
                LegacyFiles, {Null}, {NoConfig})
    /\ RendererInit

SaveLoadNext ==
    \/ \E v \in SaveLoadKeys : InputApiKey(v)
    \/ SubmitConfigForm
    \/ ResetTimerFires
    \/ ReceiveSaveReply
    \/ ReceiveLoadReply
    \/ HandleSaveConfig
    \/ HandleLoadConfig
    \/ Activate
    \/ \E dir \in {UserData, Documents}, v \in Perms : SetPerm(dir, v)

SaveLoadSpec == SaveLoadInit /\ [][SaveLoadNext]_vars

(***************************************************************************)
(* The progress counter: a worker that announces one business and reports  *)
(* up to two                                                               *)
(***************************************************************************)
MaxProgressChunks == 3
Found1 == <<"Found", " ", "1", " ", "businesses", Dot, "\n">>
ProgressChunks == {Found1, ProcessingJoe, Nameless}

ProgressNext ==
    \/ SubmitSearchForm(ValidForm)
    \/ ReceiveStatus
    \/ ReceiveSearchReply
    \/ ReceiveLoadReply
    \/ HandleLoadConfig
    \/ HandleSearchBusinesses
    \/ \E p \in Procs, data \in ProgressChunks :
          Len(procs[p].chunks) < MaxProgressChunks /\ StdoutArrives(p, data)
    \/ \E p \in Procs, code \in ExitCodes : ProcClose(p, code)

ProgressSpec == ResultInit /\ [][ProgressNext]_vars

(***************************************************************************)
(* The CSV parser on both paths: one chunk of stdout per run                *)
(***************************************************************************)
ParseNext ==
    \/ loops = {} /\ SubmitSearchForm(ValidForm)
    \/ ReceiveSearchReply
    \/ ReceiveLoadReply
    \/ ReceiveStatus
    \/ \E loop \in loops : RetryTimerFires(loop)
    \/ ReceiveReadReply
    \/ HandleLoadConfig
    \/ HandleSearchBusinesses
    \/ HandleReadCsvFile
    \/ \E p \in Procs, data \in ParseBlocks :
          procs[p].chunks = <<>> /\ StdoutData(p, data)
    \/ \E p \in Procs, text \in ParseTexts : WorkerWritesFile(p, text)
    \/ \E p \in Procs : ProcClose(p, 0)

ParseSpec == ResultInit /\ [][ParseNext]_vars

(***************************************************************************)
(* The round trip: the worker prints a set of records as one block         *)
(***************************************************************************)
RoundTripNext ==
    \/ SubmitSearchForm(ValidForm)
    \/ ReceiveSearchReply
    \/ ReceiveLoadReply
    \/ ReceiveStatus
    \/ HandleLoadConfig
    \/ HandleSearchBusinesses
    \/ \E p \in Procs, records \in RecordSets :
          procs[p].chunks = <<>> /\ StdoutData(p, WriteBlock(records))
    \/ \E p \in Procs : procs[p].chunks # <<>> /\ ProcClose(p, 0)

RoundTripSpec == ResultInit /\ [][RoundTripNext]_vars

ConfigSpec == ConfigInit /\ [][ConfigNext]_vars

(***************************************************************************)
(* Properties                                                              *)
(***************************************************************************)
IsStatus(m) == m.type = "search-status"
IsSearchReply(m) == m.type = "reply" /\ m.op = "search-businesses"
MessageOf(e) == e.message
IsStreamed(e) == ~e.afterOutcome
IsReplayed(e) == e.afterOutcome

\* the updateStatus calls of the current run, before and after its outcome
Streamed == SelectSeq(statusLog, IsStreamed)
Replayed == SelectSeq(statusLog, IsReplayed)
\* the status messages still on their way
PendingStatus == SelectSeq(channel, IsStatus)
PendingReplies == SelectSeq(channel, IsSearchReply)
ReplyFor(p) == SelectSeq(channel, LAMBDA m : IsSearchReply(m) /\ m.proc = p)

\* the invocations whose worker ran and whose outcome the renderer has not
\* received yet
CurrentProcs ==
    {p \in Procs : procs[p].state \in {"running", "closed"} /\ ~procs[p].delivered}

\* C1, as amended: the status messages of a run reach updateStatus in the
\* order the worker wrote their chunks, none is lost, and the outcome leaves
\* after the last of them, so that a streamed status update is never
\* processed after the outcome; updateStatus runs after the outcome only for
\* the replay of a failed run's non-empty output, which follows every
\* streamed update.
C1_StatusBeforeOutcome ==
    /\ \A p \in CurrentProcs :
          MapSeq(MessageOf, Streamed) \o MapSeq(MessageOf, PendingStatus)
              = MapSeq(Trim, procs[p].chunks)
    /\ \A i \in 1..Len(channel), j \in 1..Len(channel) :
          i < j /\ IsSearchReply(channel[i]) => ~IsStatus(channel[j])
    /\ \A i \in 1..Len(statusLog), j \in 1..Len(statusLog) :
          i < j /\ statusLog[i].afterOutcome => statusLog[j].afterOutcome
    /\ Replayed # <<>> =>
          /\ result.fields # {}
          /\ ~result.success
          /\ result.output # <<>>

\* a failed run: two status updates were streamed, then the outcome came,
\* then the replay
C1_Witness ==
    /\ result.fields # {}
    /\ ~result.success
    /\ Len(Streamed) = 2
    /\ Replayed # <<>>

\* C1 as stated: no updateStatus call of the run comes after its outcome,
\* whatever the exit code
C1_NoStatusAfterOutcome ==
    \A i \in 1..Len(statusLog) : ~statusLog[i].afterOutcome

SearchRequests == SelectSeq(requests, LAMBDA r : r.op = "search-businesses")
\* the invocations of search-businesses that have not resolved
Unresolved == {p \in Procs : procs[p].state \in {"running", "spawnfail"}}
Running == {p \in Procs : procs[p].state = "running"}
\* the runs the renderer has started and not seen the outcome of
Outstanding == Len(SearchRequests) + Cardinality(Unresolved) + Len(PendingReplies)

\* C2: at most one run is outstanding, so at most one worker process runs;
\* isSearching is true exactly while a run is outstanding, and a submit in
\* that time starts nothing.
C2_SingleFlight ==
    /\ Outstanding <= 1
    /\ isSearching <=> Outstanding = 1
    /\ Cardinality(Running) <= 1

\* a submit was rejected while the worker of the outstanding run was running
C2_Witness == submitRejected /\ Running # {}

\* the lines of a text that are ended by a line break
CompleteLines(text) ==
    LET pieces == SplitLines(text) IN SubSeq(pieces, 1, Len(pieces) - 1)

\* C3 as stated: updateStatus is called once for each complete line of the
\* worker's stdout, with that line, in order; while the run is on, once its
\* status messages have arrived, and after its outcome
C3_EachLineOnce ==
    /\ \A p \in CurrentProcs :
          PendingStatus = <<>> /\ result.fields = {} =>
              MapSeq(MessageOf, statusLog)
                  = MapSeq(Trim, SelectSeq(CompleteLines(procs[p].stdout), NonBlank))
    /\ "output" \in result.fields =>
          MapSeq(MessageOf, statusLog)
              = MapSeq(Trim, SelectSeq(CompleteLines(result.output), NonBlank))

\* the step of the search-businesses handler
SearchStep ==
    /\ requests # <<>>
    /\ Head(requests).op = "search-businesses"
    /\ requests' = Tail(requests)

MissingAtInvoke == ~Exists(files, SearchConfigPath(files, storePath))

\* C4, as amended: when no configuration file exists at the resolved path the
\* handler spawns nothing and resolves at once, with 'Executable not found'
\* when the executable path cannot be resolved (that test comes first) and
\* with 'Configuration file not found' otherwise; a worker is spawned only
\* when the file exists.
C4_ConfigCheckedBeforeSpawn ==
    [][SearchStep =>
          /\ MissingAtInvoke =>
                /\ procs' = procs
                /\ channel' = Append(channel,
                       SearchReply(0, IF ExecutablePathFound THEN ConfigNotFound
                                      ELSE ExecutableNotFound))
          /\ procs' # procs => ~MissingAtInvoke]_vars

\* the renderer received 'Configuration file not found' and no worker exists
C4_Witness ==
    /\ result = ConfigNotFound
    /\ \A p \in Procs : procs[p].state = "none"

\* C4 as stated: a missing configuration file always resolves with
\* 'Configuration file not found'
C4_AlwaysConfigNotFound ==
    [][SearchStep /\ MissingAtInvoke =>
          /\ procs' = procs
          /\ channel' = Append(channel, SearchReply(0, ConfigNotFound))]_vars

\* the table of CsvBlock
CsvBlockRow == [n \in {<<"n">>, <<"p">>} |-> IF n = <<"n">> THEN <<"a">> ELSE <<"1">>]

\* C5: after exit code 0 the one outcome is a success with the output file
\* path, the whole stdout and the table between the markers; without both
\* markers the table is null and the outcome is still a success.
C5_ZeroExitOutcome ==
    \A p \in Procs :
        procs[p].state = "closed" /\ procs[p].code = 0 =>
            /\ Len(ReplyFor(p)) = 1
            /\ LET o == ReplyFor(p)[1].outcome
                   out == Flatten(procs[p].chunks)
               IN  /\ o.success
                   /\ o.fields = {"success", "outputFile", "output", "csvData"}
                   /\ o.outputFile = procs[p].outputFile
                   /\ o.outputFile # <<>>
                   /\ o.output = out
                   /\ StartMarker \notin Range(out) \/ EndMarker \notin Range(out) =>
                         o.csvData = NullTable
                   /\ CsvBlock \in Range(procs[p].chunks) =>
                         o.csvData = Table(<<CsvBlockRow>>)

\* a worker that wrote the block between the markers exited with 0 and the
\* outcome carries its table
C5_Witness ==
    \E p \in Procs :
        /\ procs[p].state = "closed"
        /\ procs[p].code = 0
        /\ CsvBlock \in Range(procs[p].chunks)
        /\ Len(ReplyFor(p)) = 1
        /\ ReplyFor(p)[1].outcome.csvData = Table(<<CsvBlockRow>>)

\* C6: after a non-zero exit code the one outcome is a failure whose error is
\* the stderr text, or 'Unknown error occurred' when stderr is empty, with
\* the whole stdout and no table.
C6_NonZeroExitOutcome ==
    \A p \in Procs :
        procs[p].state = "closed" /\ procs[p].code \in ExitCodes \ {0} =>
            /\ Len(ReplyFor(p)) = 1
            /\ LET o == ReplyFor(p)[1].outcome
               IN  /\ ~o.success
                   /\ o.fields = {"success", "error", "output"}
                   /\ o.error = IF procs[p].errChunks = 0 THEN UnknownError
                                ELSE procs[p].stderr
                   /\ procs[p].errChunks > 0 => procs[p].stderr # <<>>
                   /\ o.output = Flatten(procs[p].chunks)
                   /\ o.csvData = NullTable

\* a worker that wrote to stdout and nothing to stderr exited with 1
C6_Witness ==
    \E p \in Procs :
        /\ procs[p].state = "closed"
        /\ procs[p].code = 1
        /\ procs[p].errChunks = 0
        /\ procs[p].chunks # <<>>
        /\ Len(ReplyFor(p)) = 1
        /\ ReplyFor(p)[1].outcome.error = UnknownError

StderrStep(p) ==
    /\ procs[p].state = "running"
    /\ procs'[p].state = "running"
    /\ procs'[p].errChunks = procs[p].errChunks + 1

\* C8: a stderr chunk is appended to the stderr buffer and changes nothing
\* else: no message to the renderer, no change of stage or progress counter,
\* no change of the stdout buffer; after exit code 0 the outcome holds
\* nothing of stderr.
C8_StderrOnlyBuffered ==
    /\ [][\A p \in Procs :
             StderrStep(p) =>
                 /\ channel' = channel
                 /\ currentStage' = currentStage
                 /\ scrapingProgress' = scrapingProgress
                 /\ procs'[p].stdout = procs[p].stdout
                 /\ \E data \in StderrChunks :
                       procs'[p].stderr = procs[p].stderr \o data]_vars
    /\ [](\A p \in Procs :
             procs[p].state = "closed" /\ procs[p].code = 0 =>
                 \A i \in 1..Len(ReplyFor(p)) :
                     /\ ReplyFor(p)[i].outcome.error = <<>>
                     /\ "boom" \notin Range(ReplyFor(p)[i].outcome.output))

\* a worker that wrote to stderr exited with 0 and the outcome is a success
C8_Witness ==
    \E p \in Procs :
        /\ procs[p].state = "closed"
        /\ procs[p].code = 0
        /\ procs[p].stderr # <<>>
        /\ Len(ReplyFor(p)) = 1
        /\ ReplyFor(p)[1].outcome.success

\* the step of the save-config handler
SaveStep ==
    /\ requests # <<>>
    /\ Head(requests).op = "save-config"
    /\ requests' = Tail(requests)

\* the step of the load-config handler
LoadStep ==
    /\ requests # <<>>
    /\ Head(requests).op = "load-config"
    /\ requests' = Tail(requests)

\* C9: save-config tries userData first and Documents second and nothing
\* else; the second is tried exactly when the first failed; when only the
\* second succeeds the reply is a success, the file is at the second, which
\* is remembered, and the first is untouched; the reply is a failure exactly
\* when both failed, and then store and files are as before.
C9_SaveFallbackOrder ==
    [][SaveStep =>
          LET key == Head(requests).config.apiKey
              reply == channel'[Len(channel')]
              firstOk == perm[UserData] = "rw"
              secondOk == perm[Documents] = "rw"
          IN  /\ lastOp'.attempts \in {<<UserData>>, <<UserData, Documents>>}
              /\ Len(lastOp'.attempts) = 2 <=> ~firstOk
              /\ firstOk =>
                    /\ reply.outcome.success
                    /\ files'[UserData] = File(ConfigContent(key))
                    /\ storePath' = UserData
              /\ ~firstOk /\ secondOk =>
                    /\ reply.outcome.success
                    /\ files'[Documents] = File(ConfigContent(key))
                    /\ files'[UserData] = files[UserData]
                    /\ storePath' = Documents
              /\ ~reply.outcome.success <=> ~firstOk /\ ~secondOk
              /\ ~reply.outcome.success =>
                    /\ storePath' = storePath
                    /\ storeConfig' = storeConfig
                    /\ files' = files]_vars

\* the last save failed at userData and succeeded at Documents
C9_Witness ==
    /\ lastOp.op = "save"
    /\ lastOp.success
    /\ lastOp.attempts = <<UserData, Documents>>
    /\ storePath = Documents
    /\ Exists(files, Documents)

HasKey(fs, loc) == Exists(fs, loc) /\ ApiKeyMatch(fs[loc].text).matched

\* C10, as amended: the remembered location changes only in three ways.
\* save-config, which tries userData first whatever is remembered, wrote the
\* file at another location than the remembered one; load-config found no
\* key at the remembered location and one at userData; initializeConfig
\* found no file at the remembered location and created one from the
\* template.
C10_ActiveLocationChanges ==
    [][storePath' # storePath =>
          \/ /\ SaveStep
             /\ lastOp'.success
             /\ storePath' = lastOp'.attempts[Len(lastOp'.attempts)]
             /\ files'[storePath'] = File(ConfigContent(Head(requests).config.apiKey))
          \/ /\ LoadStep
             /\ ~(storePath # Null /\ HasKey(files, storePath))
             /\ storePath' = UserData
             /\ HasKey(files, UserData)
          \/ /\ lastOp'.op = "init"
             /\ ~(storePath # Null /\ Exists(files, storePath))
             /\ ~Exists(files, storePath')
             /\ files'[storePath'] = File(TemplateContent)]_vars

\* a save moved the remembered location from Documents, which still holds
\* its file and is writable, to userData
C10_Witness ==
    /\ lastOp.op = "save"
    /\ lastOp.prePath = Documents
    /\ storePath = UserData
    /\ Exists(files, Documents)
    /\ perm[Documents] = "rw"

\* C10 as stated: a remembered location that holds its file and is writable
\* stays the remembered location
C10_ActiveLocationFixed ==
    [][storePath # Null /\ Exists(files, storePath) /\ perm[storePath] = "rw" =>
          storePath' = storePath]_vars

\* the file load-config takes the key from: the remembered one when it holds
\* a key, else the one in userData when that holds a key, else none
SelectedFile ==
    IF storePath # Null /\ HasKey(files, storePath) THEN storePath
    ELSE IF HasKey(files, UserData) THEN UserData
    ELSE Null

\* C11: load-config replies success; when the selected file holds a key entry
\* the returned apiKey is the key that file was written with, whatever the
\* store holds; when no file holds one the returned object is the store's.
\* The stored object has no property but apiKey (app.js 146-148).
C11_FileOverStore ==
    [][LoadStep =>
          LET reply == channel'[Len(channel')] IN
              /\ reply.op = "load-config"
              /\ reply.outcome.success
              /\ SelectedFile # Null =>
                    /\ reply.config.hasKey
                    /\ files[SelectedFile].text = ConfigContent(reply.config.apiKey)
              /\ SelectedFile = Null => reply.config = storeConfig]_vars

\* a load-config reply carries the file's key while the store holds another
C11_Witness ==
    \E i \in 1..Len(channel) :
        /\ channel[i].op = "load-config"
        /\ storeConfig.hasKey
        /\ channel[i].config.hasKey
        /\ channel[i].config.apiKey # storeConfig.apiKey
        /\ lastOp.op = "load"
        /\ SelectedFile # Null
        /\ files[SelectedFile].text = ConfigContent(channel[i].config.apiKey)

\* the candidate paths of load-config
LoadCandidates == (IF storePath # Null THEN {storePath} ELSE {}) \cup {UserData}

\* the file at loc exists and gives no key: it cannot be read, or its text
\* has no key entry with a value
GivesNoKey(loc) ==
    /\ Exists(files, loc)
    /\ ~files[loc].readable \/ files[loc].text \in KeylessTexts

\* C12: load-config replies success whatever the files hold.  When every
\* candidate file is missing, unreadable or without a key, the reply is the
\* store's object and the remembered configPath stays.  When the remembered
\* file exists and gives no key, the handler goes on to the userData file:
\* if that holds a key, the reply carries it and userData is remembered.
C12_KeylessFileSkipped ==
    [][LoadStep =>
          LET reply == channel'[Len(channel')] IN
              /\ reply.op = "load-config"
              /\ reply.outcome.success
              /\ (\A loc \in LoadCandidates : ~Exists(files, loc) \/ GivesNoKey(loc)) =>
                    /\ reply.config = storeConfig
                    /\ storePath' = storePath
              /\ /\ storePath \notin {Null, UserData}
                 /\ GivesNoKey(storePath)
                 /\ Exists(files, UserData)
                 /\ ~GivesNoKey(UserData)
                 => /\ reply.config.hasKey
                    /\ files[UserData].text = ConfigContent(reply.config.apiKey)
                    /\ storePath' = UserData]_vars

\* load-config read two files that gave no key, replied the store's key and
\* left the remembered path
C12_Witness ==
    /\ lastOp.op = "load"
    /\ lastOp.attempts = <<Documents, UserData>>
    /\ lastOp.prePath = Documents
    /\ storePath = Documents
    /\ GivesNoKey(Documents)
    /\ GivesNoKey(UserData)
    /\ storeConfig.hasKey
    /\ \E i \in 1..Len(channel) :
          channel[i].op = "load-config" /\ channel[i].config = storeConfig

\* C13: a search changes no config.ini that exists, in the working directory
\* or elsewhere.  The one file it may create is userData/config.ini, when
\* none is there: a copy of the active configuration file, and userData is
\* then the worker's working directory.
C13_CopyOnlyWhenMissing ==
    [][SearchStep =>
          LET active == IF storePath # Null /\ Exists(files, storePath)
                        THEN storePath ELSE UserData
          IN  /\ \A loc \in Locs : Exists(files, loc) => files'[loc] = files[loc]
              /\ files' # files =>
                    /\ ~Exists(files, UserData)
                    /\ files' = [files EXCEPT ![UserData] = files[active]]
                    /\ \E p \in Procs : /\ procs[p].state = "none"
                                        /\ procs'[p].state # "none"
                                        /\ procs'[p].cwd = UserData]_vars

\* the last search took the fallback configuration of the documents directory,
\* found another config.ini in userData and left it
C13_Witness ==
    /\ lastOp.op = "search"
    /\ lastOp.found
    /\ lastOp.prePath = Documents
    /\ Exists(files, UserData)
    /\ files[UserData] # files[Documents]

\* the worker that slot p would hold is launched by this step
Launches(p) == procs[p].state = "none" /\ procs'[p].state # "none"

\* C14: the argument list of a launched worker is -k keyword -l location
\* -r maxResults -f outputFormat, then --no-web-scraping exactly when
\* enableWebScraping is false, then -o and the output path, which are last;
\* the path starts with the requested directory, or with the documents
\* directory when none was given, and ends with a dot and the format.
C14_ArgumentList ==
    [][\A p \in Procs : SearchStep /\ Launches(p) =>
          LET params == Head(requests).params
              args == procs'[p].args
              n == Len(args)
              file == args[n]
              dir == IF params.outputDirectory # <<>> THEN params.outputDirectory
                     ELSE <<Documents>>
          IN  /\ n = IF params.enableWebScraping THEN 10 ELSE 11
              /\ SubSeq(args, 1, 8) =
                    <<"-k", params.keyword, "-l", params.location,
                      "-r", <<ToString(params.maxResults)>>,
                      "-f", <<params.outputFormat>>>>
              /\ ~params.enableWebScraping => args[9] = "--no-web-scraping"
              /\ args[n - 1] = "-o"
              /\ Len(file) > Len(dir) + 2
              /\ SubSeq(file, 1, Len(dir)) = dir
              /\ file[Len(dir) + 1] = "/"
              /\ SubSeq(file, Len(file) - 1, Len(file)) = <<Dot, params.outputFormat>>
              /\ procs'[p].outputFile = file]_vars

\* a worker launched without web scraping and without an output directory,
\* for JSON
C14_Witness ==
    \E p \in Procs :
        /\ procs[p].state = "running"
        /\ Len(procs[p].args) = 11
        /\ procs[p].args[9] = "--no-web-scraping"
        /\ procs[p].args[10] = "-o"
        /\ Head(procs[p].args[11]) = Documents
        /\ procs[p].args[8] = <<"json">>

\* the positions of tok in text
Positions(text, tok) == {i \in 1..Len(text) : text[i] = tok}

\* an end marker follows the first start marker
EndFollowsStart(out) ==
    \E s \in Positions(out, StartMarker), e \in Positions(out, EndMarker) :
        /\ \A i \in Positions(out, StartMarker) : s <= i
        /\ s < e

\* the text strictly between the first start marker and the first end
\* marker after it
Interior(out) ==
    LET s == CHOOSE i \in Positions(out, StartMarker) :
                 \A j \in Positions(out, StartMarker) : i <= j
        e == CHOOSE i \in Positions(out, EndMarker) :
                 i > s /\ \A j \in Positions(out, EndMarker) : j > s => i <= j
    IN  SubSeq(out, s + 1, e - 1)

\* the table of a block
BlockTable(block) ==
    LET lines == SelectSeq(SplitLines(Trim(block)), NonBlank)
    IN  IF Len(lines) < 2 THEN NullTable
        ELSE Table(RowsOf(MapSeq(Trim, parseCSVLine(lines[1])),
                          SubSeq(lines, 2, Len(lines))))

\* C16: the outcome of a worker that exited with 0 has no table when the
\* start marker or the end marker is missing from stdout, and otherwise the
\* table of the trimmed text strictly between the start marker and the end
\* marker, whatever precedes the start marker or follows the end marker,
\* further markers and an end marker before the start marker included.
C16_InteriorExtracted ==
    \A p \in Procs :
        procs[p].state = "closed" /\ procs[p].code = 0 /\ Len(ReplyFor(p)) = 1 =>
            LET o == ReplyFor(p)[1].outcome
                out == Flatten(procs[p].chunks)
            IN  /\ o.success
                /\ Positions(out, StartMarker) = {} \/ Positions(out, EndMarker) = {} =>
                      o.csvData = NullTable
                /\ EndFollowsStart(out) => o.csvData = BlockTable(Interior(out))

\* the onSearchStatus callback takes the next status message
StatusStep ==
    /\ channel # <<>>
    /\ Head(channel).type = "search-status"
    /\ channel' = Tail(channel)

HasWord(message, words) == \E i \in 1..Len(message) : message[i] \in words
ErrorWords == {"error", "Error", "ERROR"}
FailedWords == {"failed", "Failed"}
ProgressWords == {"Found", "Enhancing", "Scraping", "Processing:"}

\* C17: a line that contains 'error' in any letter case puts the stage to
\* error and is recorded as the error message, whatever the stage was, and so
\* does a line that contains a progress keyword and 'error' or 'failed'.
C17_ErrorLineIsError ==
    [][StatusStep =>
          LET message == Head(channel).message
              reported == statusLog'[Len(statusLog')]
          IN  \/ HasWord(message, ErrorWords)
              \/ HasWord(message, ProgressWords) /\ HasWord(message, FailedWords)
              => /\ currentStage' = "error"
                 /\ reported.error = message]_vars

\* C18: from any stage and any counter, the line 'Found 42 businesses.' sets
\* total to 42 and current to 0, and the stage is searching.
C18_FoundSetsCounter ==
    [][StatusStep /\ Head(channel).message = Trim(Found42) =>
          /\ scrapingProgress' = [current |-> 0, total |-> 42]
          /\ currentStage' = "searching"]_vars

\* the last line classified is 'Found 42 businesses.', after a line that had
\* put the counter to 1 of 0
C18_Witness ==
    /\ Len(statusLog) >= 2
    /\ statusLog[Len(statusLog)].message = Trim(Found42)
    /\ statusLog[Len(statusLog) - 1].message = Trim(ProcessingJoe)
    /\ scrapingProgress = [current |-> 0, total |-> 42]

\* C19: the line "Processing: Joe's Pizza..." adds one to current, leaves
\* total, and reports the business name Joe's Pizza; after 'Found 42
\* businesses.' the counter is 1 of 42.
C19_ProcessingCounts ==
    [][StatusStep /\ Head(channel).message = Trim(ProcessingJoe) =>
          /\ scrapingProgress'.current = scrapingProgress.current + 1
          /\ scrapingProgress'.total = scrapingProgress.total
          /\ statusLog'[Len(statusLog')].label = <<"Joe's", " ", "Pizza">>
          /\ scrapingProgress = [current |-> 0, total |-> 42] =>
                scrapingProgress' = [current |-> 1, total |-> 42]]_vars

\* "Processing: Joe's Pizza..." was classified right after 'Found 42
\* businesses.'
C19_Witness ==
    /\ Len(statusLog) >= 2
    /\ statusLog[Len(statusLog) - 1].message = Trim(Found42)
    /\ statusLog[Len(statusLog)].message = Trim(ProcessingJoe)
    /\ statusLog[Len(statusLog)].label = <<"Joe's", " ", "Pizza">>
    /\ scrapingProgress = [current |-> 1, total |-> 42]

LogicalFields ==
    {"name", "address", "phone", "email", "website", "rating", "reviews",
     "additional_numbers", "additional_emails", "social_media_links"}

\* the data rows of a CSV text
DataRowCount(text) == Len(SelectSeq(SplitLines(text), NonBlank)) - 1

\* C15: the table built from the worker's CSV, from the embedded block or from
\* the result file, has one record per data row, and every record has each
\* of the ten logical fields.
C15_EveryFieldPresent ==
    lastSearchResults # <<>> =>
        /\ Len(lastSearchResults) = DataRowCount(FullCsv)
        /\ \A i \in 1..Len(lastSearchResults) :
              DOMAIN lastSearchResults[i] = LogicalFields

StrictlyIncreasing(s) == \A i \in 1..(Len(s) - 1) : s[i] < s[i + 1]

\* a read of the result file is answered by the main process
ReadStep ==
    /\ requests # <<>>
    /\ Head(requests).op = "read-csv-file"
    /\ requests' = Tail(requests)

\* the retry loop gets the answer to a read
ReadReplyStep ==
    /\ channel # <<>>
    /\ Head(channel).op = "read-csv-file"
    /\ channel' = Tail(channel)
    /\ \E loop \in loops : loop.file = Head(channel).file

\* C20: the retry loop after a successful run without embedded table reads
\* the result file at most three times, each read after a delay longer than
\* the one before; it ends at the first read that returns a row, with the
\* table shown, and after three reads without rows it ends with an empty
\* table and no exception; every loop ends.
C20_RetryLoop ==
    /\ [](\A loop \in loops : /\ loop.attempt < 3
                              /\ Len(loop.delays) = loop.attempt + 1
                              /\ StrictlyIncreasing(loop.delays))
    /\ [](lastLoop.outcome # "none" => /\ lastLoop.reads <= 3
                                       /\ Len(lastLoop.delays) = lastLoop.reads
                                       /\ StrictlyIncreasing(lastLoop.delays))
    /\ [][ReadStep => Head(requests).attempt < 3]_vars
    /\ [][ReadReplyStep =>
             LET read == Head(channel).read
                 rows == read.success /\ Len(read.data) > 0
             IN  /\ rows => /\ loops' = {}
                            /\ Len(lastSearchResults') = Len(read.data)
                            /\ lastLoop'.outcome = "rows"
                            /\ lastLoop'.reads = Head(channel).attempt + 1
                 /\ ~rows /\ Head(channel).attempt = 2 =>
                            /\ loops' = {}
                            /\ lastSearchResults' = <<>>
                            /\ lastLoop'.outcome = "no-data"
                 /\ ~rows /\ Head(channel).attempt < 2 =>
                            /\ loops' # {}
                            /\ lastLoop' = lastLoop]_vars
    /\ (loops # {}) ~> (loops = {})

\* a loop found rows at its second read, after 200 and 400 ms, and ended
\* there with the table shown
C20_Witness ==
    /\ lastLoop.outcome = "rows"
    /\ lastLoop.reads = 2
    /\ lastLoop.delays = <<200, 400>>
    /\ Len(lastSearchResults) = DataRowCount(FullCsv)
    /\ result.success
    /\ result.csvData = NullTable
    /\ loops = {}

\* the lines of a text that have a character other than whitespace, counted
\* by the first such character of each
SubstantialLines(text) ==
    Cardinality({i \in 1..Len(text) :
                    /\ text[i] \notin WS
                    /\ \A j \in 1..(i - 1) :
                          (\A k \in j..(i - 1) : text[k] # "\n") => text[j] \in WS})

\* C21: a CSV text with fewer than two non-blank lines is no table: reading
\* such a result file gives the failure 'Invalid CSV file - no data rows
\* found' with no rows, such a block on stdout gives a null csvData, and
\* neither path ever gives an empty list of rows.
C21_TooFewRowsFails ==
    /\ [][ReadStep =>
            LET file == Head(requests).file
                reply == channel'[Len(channel')].read
            IN  /\ (outFiles[file].exists /\ outFiles[file].readable
                      /\ SubstantialLines(outFiles[file].text) < 2)
                    => /\ ~reply.success
                       /\ reply.data = <<>>
                       /\ reply.error = <<"Invalid CSV file - no data rows found">>
                /\ reply.success => Len(reply.data) >= 1]_vars
    /\ [](result.success =>
            /\ \A text \in ParseTexts :
                  (result.output = Block(text) /\ SubstantialLines(text) < 2)
                      => result.csvData = NullTable
            /\ ~result.csvData.null => Len(result.csvData.rows) >= 1)

\* a run printed a block with a header and no row, got no table, and the
\* read of its result file, a header and blank lines, has failed
C21_Witness ==
    /\ result.success
    /\ result.output = Block(HeaderOnly)
    /\ result.csvData = NullTable
    /\ channel # <<>>
    /\ Head(channel).op = "read-csv-file"
    /\ ~Head(channel).read.success
    /\ Head(channel).read.error = <<"Invalid CSV file - no data rows found">>
    /\ outFiles[Head(channel).file] = File(HeaderAndBlanks)

\* the first of the keys that the row has, whatever its value
RECURSIVE FirstPresent(_, _)
FirstPresent(row, keys) ==
    IF keys = <<>> THEN <<>>
    ELSE IF Head(keys) \in DOMAIN row THEN row[Head(keys)]
    ELSE FirstPresent(row, Tail(keys))

AliasRecord(row) ==
    [name |-> FirstPresent(row, <<<<"name">>>>),
     address |-> FirstPresent(row, <<<<"address">>>>),
     phone |-> FirstPresent(row, <<<<"phone", "_", "number">>, <<"phonenumber">>,
                                   <<"phone">>>>),
     email |-> FirstPresent(row, <<<<"email">>>>),
     website |-> FirstPresent(row, <<<<"website">>>>),
     rating |-> FirstPresent(row, <<<<"rating">>>>),
     reviews |-> FirstPresent(row, <<<<"total", "_", "ratings">>, <<"totalratings">>,
                                     <<"reviews">>>>),
     additional_numbers |->
         FirstPresent(row, <<<<"additional", "_", "numbers">>, <<"additionalnumbers">>>>),
     additional_emails |->
         FirstPresent(row, <<<<"additional", "_", "emails">>, <<"additionalemails">>>>),
     social_media_links |->
         FirstPresent(row, <<<<"social", "_", "media", "_", "links">>,
                              <<"socialmedialinks">>>>)]

\* startSearch resumes with the outcome of the run
SearchReplyStep ==
    /\ channel # <<>>
    /\ Head(channel).type = "reply"
    /\ Head(channel).op = "search-businesses"
    /\ channel' = Tail(channel)

\* C22: a record assembled from a normalized row, on either path, has each
\* of the ten logical fields, with the value of the first alias key the row
\* has (phone: phone_number, phonenumber, phone; review count: total_ratings,
\* totalratings, reviews), and the empty string when the row has none.
C22_FirstAliasPresent ==
    [][/\ (SearchReplyStep /\ Head(channel).outcome.success
             /\ ~Head(channel).outcome.csvData.null
             /\ Len(Head(channel).outcome.csvData.rows) > 0)
          => LET rows == Head(channel).outcome.csvData.rows
             IN  lastSearchResults' = [i \in 1..Len(rows) |-> AliasRecord(rows[i])]
       /\ (ReadReplyStep /\ Head(channel).read.success
             /\ Len(Head(channel).read.data) > 0)
          => LET rows == Head(channel).read.data
             IN  lastSearchResults' = [i \in 1..Len(rows) |-> AliasRecord(rows[i])]]_vars

\* header cells of up to three characters
HeaderAlphabet == {"N", "a", " ", "#", "_", "1"}
HeaderCells ==
    {<<>>} \cup {<<c>> : c \in HeaderAlphabet}
           \cup {<<c, d>> : c \in HeaderAlphabet, d \in HeaderAlphabet}
           \cup {<<c, d, e>> : c \in HeaderAlphabet, d \in HeaderAlphabet,
                               e \in HeaderAlphabet}

\* the keys of the rows the main process has built in the current state
RowKeys ==
    UNION {DOMAIN result.csvData.rows[i] : i \in 1..Len(result.csvData.rows)}
      \cup UNION {UNION {DOMAIN channel[j].read.data[i] :
                              i \in 1..Len(channel[j].read.data)} :
                    j \in {k \in 1..Len(channel) : channel[k].op = "read-csv-file"}}

\* C23: header normalization is idempotent: every property name the main
\* process gives a row, on either path, is left as it is by the
\* normalization, and so is the normalization of every short header cell.
C23_NormalizationIdempotent ==
    /\ \A key \in RowKeys : PropName(key) = key
    /\ \A header \in HeaderCells : PropName(PropName(header)) = PropName(header)

\* the rows of a header with capitals, a whitespace run and characters
\* outside [a-z0-9_] have arrived
C23_Witness ==
    /\ result.success
    /\ result.output = Block(OddHeaderCsv)
    /\ ~result.csvData.null
    /\ DOMAIN result.csvData.rows[1] =
           {<<"phone", "_", "number">>, <<"n", "a">>, <<"total", "_", "ratings">>}

\* C24: a set of records the worker writes as an embedded block (a header
\* row, a line per record, a field in quotes when it contains the separator)
\* comes back from the parse and the record assembly as the same records,
\* field for field.
C24_RoundTrip ==
    \A records \in RecordSets :
        (result.success /\ result.output = WriteBlock(records))
            => lastSearchResults = records

\* the patterns of the classification list, in its order
RuleMatches(r, message) ==
    CASE r = 1 -> HasWord(message, {"Searching for"})
      [] r = 2 -> HasWord(message, {"Max results:", "Web scraping:"})
      [] r = 3 -> HasWord(message, {"Found"}) /\ HasWord(message, {"businesses"})
      [] r = 4 -> HasWord(message, {"Enhanced"})
                    /\ HasWord(message, {"with website data"})
      [] r = 5 -> HasWord(message, {"Enhancing", "Scraping", "Processing:"})
      [] r = 6 -> HasWord(message, {"Results saved to:"})
      [] r = 7 -> HasWord(message, ErrorWords \cup FailedWords)
      [] r = 8 -> HasWord(message, {"No businesses found"})
      [] OTHER -> TRUE

FirstRule(message) ==
    CHOOSE r \in 1..9 : RuleMatches(r, message) /\ \A q \in 1..(r - 1) : ~RuleMatches(q, message)

\* C25: every call of updateStatus applies the first rule of the list that
\* matches its line and no other: only rule 7 reports an error or puts the
\* stage to error, only rule 8 puts it to complete, only rule 3 changes
\* total, only rules 3 and 5 change current, and rules 2, 6 and 9 leave the
\* stage alone.
C25_FirstRuleWins ==
    /\ [](\A i \in 1..Len(statusLog) :
             /\ statusLog[i].rule = FirstRule(statusLog[i].message)
             /\ statusLog[i].rule # 7 => statusLog[i].error = <<>>
             /\ statusLog[i].rule # 5 => statusLog[i].label = <<>>)
    /\ [][StatusStep =>
            LET rule == FirstRule(Head(channel).message)
            IN  /\ rule # 7 /\ currentStage' = "error" => currentStage = "error"
                /\ rule # 8 /\ currentStage' = "complete" => currentStage = "complete"
                /\ rule # 3 => scrapingProgress'.total = scrapingProgress.total
                /\ rule \notin {3, 5} => scrapingProgress' = scrapingProgress
                /\ rule \in {2, 6, 9} => currentStage' = currentStage
                /\ rule \in {1, 3, 4, 5} => currentStage' \in {"searching", currentStage}]_vars

\* lines that match an earlier and a later rule were classified by the
\* earlier one: 'Error: Scraping x failed' by rule 5, and after it
\* 'Results saved to: error.csv' by rule 6, with the stage still searching
C25_Witness ==
    /\ Len(statusLog) = 2
    /\ statusLog[1].message = Trim(ScrapingError)
    /\ statusLog[1].rule = 5
    /\ statusLog[2].message = Trim(SavedError)
    /\ statusLog[2].rule = 6
    /\ statusLog[2].error = <<>>
    /\ currentStage = "searching"

\* lines of rule 5 in which neither pattern finds a business name
NamelessLines == {Trim(Nameless), Trim(BareScraping)}

\* C26: a line with 'Enhancing', 'Scraping' or 'Processing:' and no business
\* name adds one to current and shows the progress without a name when total
\* is positive; when total is 0 it leaves the counter and shows the generic
\* text; the stage is searching either way.
C26_NamelessProgress ==
    [][StatusStep /\ Head(channel).message \in NamelessLines =>
          LET reported == statusLog'[Len(statusLog')]
          IN  /\ reported.label = <<>>
              /\ reported.error = <<>>
              /\ currentStage' = "searching"
              /\ scrapingProgress.total > 0 =>
                    /\ scrapingProgress' =
                           [scrapingProgress EXCEPT !.current = @ + 1]
                    /\ searchDetails' = "progress"
              /\ scrapingProgress.total = 0 =>
                    /\ scrapingProgress' = scrapingProgress
                    /\ searchDetails' = "collecting"]_vars

\* 'Processing: b' came after 'Found 42 businesses.' and made it 1 of 42,
\* shown without a name
C26_Witness ==
    /\ Len(statusLog) = 2
    /\ statusLog[1].message = Trim(Found42)
    /\ statusLog[2].message = Trim(Nameless)
    /\ statusLog[2].label = <<>>
    /\ scrapingProgress = [current |-> 1, total |-> 42]
    /\ searchDetails = "progress"

\* C27: a configuration echo, a 'Results saved to:' line and a line of the
\* fallback rule leave the stage and the counter as they are; the echo shows
\* nothing; a fallback line is shown only while the stage is searching and
\* changes nothing in any other stage.
C27_QuietRules ==
    [][StatusStep =>
          LET rule == FirstRule(Head(channel).message)
          IN  /\ rule \in {2, 6, 9} => /\ currentStage' = currentStage
                                       /\ scrapingProgress' = scrapingProgress
              /\ rule = 2 => searchDetails' = searchDetails
              /\ rule = 6 => searchDetails' \in {searchDetails, "finalizing"}
              /\ rule = 9 =>
                    /\ searchDetails' \in {searchDetails, "raw"}
                    /\ currentStage # "searching" => searchDetails' = searchDetails
                    /\ (currentStage = "searching" /\ ~HasProgressBar(searchDetails))
                          => searchDetails' = "raw"]_vars

\* 'hello' arrived after an error line had put the stage to error, and was
\* dropped
C27_Witness ==
    /\ Len(statusLog) = 2
    /\ statusLog[1].message = Trim(ErrorNone)
    /\ statusLog[1].rule = 7
    /\ statusLog[2].message = Trim(Hello)
    /\ statusLog[2].rule = 9
    /\ statusLog[2].details = statusLog[1].details
    /\ statusLog[2].details # "raw"
    /\ ~statusLog[2].afterOutcome
    /\ currentStage = "error"

\* handleSearch gets to startSearch
SearchStartStep == ~isSearching /\ isSearching'

\* C28: every start of a search puts the counter to 0 of 0 and the stage to
\* searching, whatever the run before has left, and the counter is still 0 of
\* 0 when the first line of the new run is classified.
C28_ResetAtStart ==
    /\ [][SearchStartStep => /\ scrapingProgress' = [current |-> 0, total |-> 0]
                             /\ currentStage' = "searching"
                             /\ statusLog' = <<>>]_vars
    /\ []((isSearching /\ statusLog = <<>>) =>
             scrapingProgress = [current |-> 0, total |-> 0])
    /\ [][(StatusStep /\ statusLog = <<>>) =>
             scrapingProgress = [current |-> 0, total |-> 0]]_vars

\* a second search has started after a run that succeeded, and none of its
\* lines has arrived yet
C28_Witness ==
    /\ isSearching
    /\ lastOutputFile # <<>>
    /\ statusLog = <<>>
    /\ scrapingProgress = [current |-> 0, total |-> 0]
    /\ currentStage = "searching"
    /\ \E p \in Procs : procs[p].state = "running"

\* the file at loc exists, can be read and holds a key entry
YieldsKey(loc) == Exists(files, loc) /\ ~GivesNoKey(loc)

\* C29: the files load-config reads are the remembered one and then the one
\* in userData, in that order and no other; the userData file is read only
\* when the remembered one is absent or gave no key; the file that gave the
\* key is the last one read, its key is the reply's, and it is the remembered
\* path afterwards; with no key from any file the remembered path stays.
C29_LoadOrder ==
    [][LoadStep =>
          LET reply == channel'[Len(channel')]
              reads == lastOp'.attempts
              first == storePath # Null /\ YieldsKey(storePath)
              second == ~first /\ storePath # UserData /\ YieldsKey(UserData)
          IN  /\ reply.op = "load-config"
              /\ \A i \in 1..Len(reads) : Exists(files, reads[i])
              /\ first => /\ reads = <<storePath>>
                          /\ storePath' = storePath
                          /\ files[storePath].text = ConfigContent(reply.config.apiKey)
              /\ second => /\ reads = (IF storePath # Null /\ Exists(files, storePath)
                                        THEN <<storePath>> ELSE <<>>) \o <<UserData>>
                           /\ storePath' = UserData
                           /\ files[UserData].text = ConfigContent(reply.config.apiKey)
              /\ (~first /\ ~second) =>
                    /\ reads = SelectSeq(ConfigPathsToTry(storePath),
                                         LAMBDA loc : Exists(files, loc))
                    /\ \A i \in 1..Len(reads) : reads[i] \in {storePath, UserData}
                    /\ Len(reads) = 2 => reads = <<storePath, UserData>>
                    /\ storePath' = storePath
                    /\ reply.config = storeConfig]_vars

\* load-config took the key from the remembered Documents file and did not
\* read the userData file, which holds another key
C29_Witness ==
    /\ lastOp.op = "load"
    /\ lastOp.prePath = Documents
    /\ lastOp.attempts = <<Documents>>
    /\ storePath = Documents
    /\ YieldsKey(Documents)
    /\ YieldsKey(UserData)
    /\ files[UserData].text # files[Documents].text
    /\ \E i \in 1..Len(channel) :
          /\ channel[i].op = "load-config"
          /\ files[Documents].text = ConfigContent(channel[i].config.apiKey)

\* a 'data' event of invocation p: its stdout callback, its stderr callback
StdoutStep(p) ==
    /\ procs[p].state = "running"
    /\ procs'[p].state = "running"
    /\ Len(procs'[p].chunks) = Len(procs[p].chunks) + 1

\* C30: in whatever order the chunks of the two streams arrive, a stdout
\* chunk goes to the end of the stdout buffer and leaves the stderr buffer,
\* a stderr chunk goes to the end of the stderr buffer and leaves the stdout
\* buffer; each buffer is the concatenation of its stream's chunks in the
\* order of arrival, and the outcome carries the stdout buffer as output and,
\* after a non-zero exit with stderr output, the stderr buffer as error.
C30_StreamsInArrivalOrder ==
    /\ [][\A p \in Procs :
             /\ StdoutStep(p) =>
                   /\ \E data \in StreamOut :
                         /\ procs'[p].chunks = Append(procs[p].chunks, data)
                         /\ procs'[p].stdout = procs[p].stdout \o data
                   /\ procs'[p].stderr = procs[p].stderr
                   /\ procs'[p].errLog = procs[p].errLog
             /\ StderrStep(p) =>
                   /\ \E data \in StreamErr :
                         /\ procs'[p].errLog = Append(procs[p].errLog, data)
                         /\ procs'[p].stderr = procs[p].stderr \o data
                   /\ procs'[p].stdout = procs[p].stdout
                   /\ procs'[p].chunks = procs[p].chunks]_vars
    /\ [](\A p \in Procs :
             /\ procs[p].stdout = Flatten(procs[p].chunks)
             /\ procs[p].stderr = Flatten(procs[p].errLog)
             /\ procs[p].state = "closed" =>
                   \A i \in 1..Len(ReplyFor(p)) :
                       LET o == ReplyFor(p)[i].outcome
                       IN  /\ o.output = Flatten(procs[p].chunks)
                           /\ procs[p].code # 0 /\ procs[p].errLog # <<>> =>
                                 o.error = Flatten(procs[p].errLog))

\* a worker wrote two different chunks to each stream and exited with 1; the
\* outcome on its way carries both buffers
C30_Witness ==
    \E p \in Procs :
        /\ procs[p].state = "closed"
        /\ procs[p].code = 1
        /\ procs[p].chunks = <<LineFound, Hello>>
        /\ procs[p].errLog = <<<<"warn", "\n">>, <<"boom", "\n">>>>
        /\ Len(ReplyFor(p)) = 1
        /\ ReplyFor(p)[1].outcome.output = LineFound \o Hello
        /\ ReplyFor(p)[1].outcome.error = <<"warn", "\n", "boom", "\n">>

\* lines of up to MaxLineLen characters over the separator, the quote, the
\* blank and a letter
MaxLineLen == 5
CsvAlphabet == {"a", ",", "\"", " "}
CsvLines == UNION {[1..n -> CsvAlphabet] : n \in 0..MaxLineLen}

\* the position i of line lies in a quoted region: an odd number of quotes
\* precedes it
InQuotes(line, i) == Cardinality({j \in 1..(i - 1) : line[j] = "\""}) % 2 = 1
\* the separators outside the quoted regions
OutsideCommas(line) == {i \in 1..Len(line) : line[i] = "," /\ ~InQuotes(line, i)}
\* the k-th cut of a line: 0, its separators outside quotes in their order,
\* and the position after its end
Cut(line, k) ==
    IF k = 0 THEN 0
    ELSE IF k > Cardinality(OutsideCommas(line)) THEN Len(line) + 1
    ELSE CHOOSE i \in OutsideCommas(line) :
             Cardinality({j \in OutsideCommas(line) : j < i}) = k - 1
\* the text between two cuts, without its quotes and surrounding whitespace
Segment(line, k) ==
    Trim(SelectSeq(SubSeq(line, Cut(line, k - 1) + 1, Cut(line, k) - 1),
                   LAMBDA c : c # "\""))

SplitsOutsideQuotes(line) ==
    LET fields == parseCSVLine(line)
    IN  /\ Len(fields) = 1 + Cardinality(OutsideCommas(line))
        /\ \A k \in 1..Len(fields) :
              /\ "\"" \notin Range(fields[k])
              /\ fields[k] = Segment(line, k)
              /\ Cardinality({i \in 1..Len(fields[k]) : fields[k][i] = ","})
                    = Cardinality({i \in (Cut(line, k - 1) + 1)..(Cut(line, k) - 1) :
                                      line[i] = ","})

\* C31: parseCSVLine returns one field more than the line has separators
\* outside quoted regions; each field is the text between two such
\* separators, trimmed and without its quotes, so a comma inside quotes stays
\* in its field and no field holds a quote.  For every short line, and for
\* every line of the output of a worker and the rows made of it.
C31_SplitsOutsideQuotes ==
    /\ \A line \in CsvLines : SplitsOutsideQuotes(line)
    /\ \A line \in Range(SplitLines(result.output)) : SplitsOutsideQuotes(line)
    /\ \A i \in 1..Len(result.csvData.rows) :
          \A key \in DOMAIN result.csvData.rows[i] :
              "\"" \notin Range(result.csvData.rows[i][key])

\* the table of a worker that wrote the address a,b in quotes has arrived:
\* the row has ten fields and the address holds the comma
C31_Witness ==
    /\ result.success
    /\ result.output = WriteBlock(<<Business(<<"a">>, <<"a", ",", "b">>)>>)
    /\ <<"\"", "a", ",", "b", "\"">> \in
           {SubSeq(result.output, i, i + 4) : i \in 1..(Len(result.output) - 4)}
    /\ Len(result.csvData.rows) = 1
    /\ Cardinality(DOMAIN result.csvData.rows[1]) = 10
    /\ result.csvData.rows[1][<<"address">>] = <<"a", ",", "b">>

\* startSearch reaches its finally block (282-285)
SearchEndStep == isSearching /\ ~isSearching'

\* C32: when startSearch has handled the outcome, the stage is complete or
\* error, and it is error after a failure outcome.
C32_TerminalStage ==
    [][SearchEndStep =>
          /\ currentStage' \in {"complete", "error"}
          /\ ~result'.success => currentStage' = "error"]_vars

\* C33: with a total above 0, current lies between 0 and total.
C33_CounterWithinTotal ==
    scrapingProgress.total > 0 =>
        /\ 0 <= scrapingProgress.current
        /\ scrapingProgress.current <= scrapingProgress.total

ActiveConfig == IF storePath # Null /\ Exists(files, storePath) THEN storePath ELSE UserData

\* C35: in production mode the config.ini in the working directory of a
\* launched worker is the active configuration file or has its content.
C35_WorkerSeesActiveConfig ==
    [][\A p \in Procs :
          (SearchStep /\ Launches(p) /\ ~isDev) =>
              /\ Exists(files', procs'[p].cwd)
              /\ files'[procs'[p].cwd] = files[ActiveConfig]]_vars

\* C36: the store of SaveLoadSpec is new, so it holds a config exactly when a
\* save has succeeded, and then the one of the last such save.  A
\* load-config after it replies that key without the whitespace around it,
\* read from the file at the remembered path, and reads no other file.
C36_SaveLoadRoundTrip ==
    [][(LoadStep /\ storeConfig.hasKey) =>
          LET reply == channel'[Len(channel')]
          IN  /\ reply.op = "load-config"
              /\ reply.outcome.success
              /\ reply.config = Config(Trim(storeConfig.apiKey))
              /\ lastOp'.attempts = <<storePath>>
              /\ storePath' = storePath]_vars

\* the key ' k2 ' was saved to the documents directory while userData holds
\* the file of an earlier installation, and load-config has replied k2
C36_Witness ==
    /\ storeConfig = Config(<<" ", "k", "2", " ">>)
    /\ storePath = Documents
    /\ files[UserData] = File(ConfigContent(OldKey))
    /\ lastOp.op = "load"
    /\ lastOp.attempts = <<Documents>>
    /\ \E i \in 1..Len(channel) :
          channel[i].op = "load-config" /\ channel[i].config = Config(<<"k", "2">>)

\* C37: the search button is disabled whenever a search is outstanding.
C37_ButtonDisabledWhileSearching == isSearching => searchBtnDisabled

\* the setTimeout callback of handleConfigSave runs
TimerStep == resetTimers' = resetTimers - 1

\* C38: the timer of a save leaves the stage of a search that started after
\* the save and is still outstanding, and it leaves the complete status of a
\* search that ended after the save.
C38_TimerClearsOnlyOwnComplete ==
    [][TimerStep =>
          /\ (sinceSave.started /\ isSearching) => currentStage' = currentStage
          /\ (sinceSave.ended /\ currentStage = "complete") =>
                currentStage' = "complete"]_vars

\* C39: initializeConfig, run in any state of the installation, leaves every
\* configuration file that exists; it remembers a path or writes the
\* template only when no file is at the remembered, the primary and the
\* application path, and then it is the primary path; and a second run after
\* it changes no file and not the remembered path.
C39_InitializeIdempotent ==
    LET once == InitializeConfig(files, storePath)
        twice == InitializeConfig(once.files, once.storePath)
        primary == PrimaryConfigPath
        none == /\ ~(storePath # Null /\ Exists(files, storePath))
                /\ ~Exists(files, primary)
                /\ ~Exists(files, InitAppConfigPath(files, storePath))
    IN  /\ \A loc \in Locs : Exists(files, loc) => once.files[loc] = files[loc]
        /\ (once.storePath # storePath \/ once.files[primary] # files[primary]) =>
              /\ none
              /\ once.storePath = primary
              /\ once.files[primary] = File(TemplateContent)
        /\ twice = once
=============================================================================
